---- MODULE Spec2Model ----
(***************************************************************************)
(* Model of the Bittensor subnet DCA bot (src/btt_subnet_dca.py): the     *)
(* EMA-chasing control loop (main, rotate_wallets, chase_ema), the         *)
(* operation executors (perform_stake, perform_unstake, log_operation)     *)
(* and the alpha harvesting rotation (rotate_wallets_for_harvest,          *)
(* harvest_alpha_for_tao_reserve).                                         *)
(*                                                                         *)
(* Amounts (TAO, alpha) live on a fixed-point grid: one grid unit stands   *)
(* for one whole token, and the bracket floor of the trade-size search     *)
(* (1e-12 in the source) is one grid unit.  Divisions truncate to the      *)
(* grid.  Prices are integers (TAO per alpha).  Price deviations are in    *)
(* percent.  A slippage target is a fraction num/den, so that the dynamic  *)
(* scale factor is exact.                                                  *)
(***************************************************************************)
EXTENDS Integers, Sequences, FiniteSets, TLC

\* ------------------------------------------------------------------ bounds
\* The finite --budget offered to a run (besides 0 = use the full balance).
MaxBudget == 8
SmallBudget == 2

\* The trade-size search taken by itself: the largest bracket and the largest
\* slippage the oracle quotes.
MaxSize == 6
MaxSlippage == 3
\* perform_unstake taken by itself: the largest balance of a stake pool and
\* the largest amount requested.
MaxPoolBalance == 3
MaxRequest == 4
\* The search by itself: the size from which neighbouring floats are more
\* than the bracket floor apart, and the probes a search is followed for.
CoarseFrom == 4
MaxProbes == 6
MaxStake == 2
\* The dynamic slippage by itself: spot price and EMA are in 1..MaxPrice.
MaxPrice == 4

\* ------------------------------------------------------- program constants
\* The reserves in force (utils/settings.py, or --alpha-reserve and
\* --tao-reserve), in grid units.
DCA_RESERVE_ALPHA == 1
DCA_RESERVE_TAO == 4
\* The harvest thresholds the program imports from utils.settings: the
\* smallest unstake worth submitting and the deficit that counts as none.
MIN_UNSTAKE_ALPHA == 1
MIN_TAO_DEFICIT == 1
max_attempts == 3
BracketFloor == 1
DefaultMaxPriceDiff == 20

\* ----------------------------------------------------------------- helpers
Abs(x) == IF x < 0 THEN -x ELSE x
Min(a, b) == IF a <= b THEN a ELSE b
Max(a, b) == IF a >= b THEN a ELSE b
None == "None"
\* subnet_info before a quote was fetched.
NoQuote == [price |-> 0, ema |-> 0, depth |-> 0]

\* --------------------------------------------------------- the environment
\* Wallet/hotkey pairs found on disk, in the sorted order get_wallet_groups
\* and initialize_wallets produce.
Wallets == {1, 2}
VALIDATOR_HOTKEYS == <<"v1", "v2">>
Validators == {VALIDATOR_HOTKEYS[i] : i \in 1..Len(VALIDATOR_HOTKEYS)}

\* What the ledger may hold for a wallet when a cycle reads it: other
\* parties move funds between two cycles, the program only within one.
Profiles ==
    { [tao |-> 6, home |-> 3, vali |-> [v \in Validators |-> IF v = "v1" THEN 1 ELSE 2]],
      [tao |-> 2, home |-> 2, vali |-> [v \in Validators |-> 0]],
      [tao |-> 0, home |-> 0, vali |-> [v \in Validators |-> IF v = "v1" THEN 1 ELSE 2]] }
\* The ledger entry of a wallet no cycle is reading.
NoEntry == [tao |-> 0, home |-> 0, vali |-> [v \in Validators |-> 0]]
NoLedger == [w \in Wallets |-> NoEntry]

\* Quotes the oracle may return: spot price, EMA and the depth of the pool
\* (the deeper the pool, the smaller the slippage of a given size).
Quotes ==
    { [price |-> 1, ema |-> 1, depth |-> 2],
      [price |-> 1, ema |-> 2, depth |-> 2],
      [price |-> 1, ema |-> 2, depth |-> 8],
      [price |-> 2, ema |-> 1, depth |-> 2],
      [price |-> 2, ema |-> 1, depth |-> 8] }

\* Outcomes of a chain call.
ReadOutcomes == {"ok", "raise"}
MutationOutcomes == {"ok", "falsy", "raise"}
QuoteOutcomes == {"ok", "none", "raise", "attr"}

\* Command lines of the run: every option at its default, or one of them set.
DefaultArgs ==
    [ budget |-> 0, slippage |-> 2, min_price_diff |-> 0,
      dynamic_slippage |-> FALSE, max_price_diff |-> << >>, one_way_mode |-> None,
      test |-> FALSE, rotate_all_wallets |-> FALSE, harvest_alpha |-> FALSE ]
ChaseOptions ==
    { DefaultArgs,
      [DefaultArgs EXCEPT !.min_price_diff = 60],
      [DefaultArgs EXCEPT !.dynamic_slippage = TRUE],
      [DefaultArgs EXCEPT !.dynamic_slippage = TRUE, !.max_price_diff = << 100 >>],
      [DefaultArgs EXCEPT !.dynamic_slippage = TRUE, !.min_price_diff = 60],
      [DefaultArgs EXCEPT !.one_way_mode = "stake"],
      [DefaultArgs EXCEPT !.one_way_mode = "unstake"],
      [DefaultArgs EXCEPT !.test = TRUE],
      [DefaultArgs EXCEPT !.rotate_all_wallets = TRUE] }
\* Every option without a budget and with a small one, and the default
\* options with a large one.
ChaseArgs ==
    ChaseOptions
    \cup { [a EXCEPT !.budget = SmallBudget] : a \in ChaseOptions }
    \cup { [DefaultArgs EXCEPT !.budget = MaxBudget] }
\* --harvest-alpha, live and in test mode.
HarvestArgs ==
    { [DefaultArgs EXCEPT !.harvest_alpha = TRUE],
      [DefaultArgs EXCEPT !.harvest_alpha = TRUE, !.test = TRUE] }

VARIABLES
    args,                   \* the parsed command line (TEST_MODE is args.test)
    chain,                  \* the ledger: per wallet, TAO balance and alpha per stake pool
    txlog,                  \* the rows the current cycle added to the transactions table
    pc,                     \* where the control loop stands
    cur,                    \* index in unlocked_wallets of the wallet being processed
    remaining_budget,       \* chase_ema: budget left in this call
    attempt,                \* chase_ema: attempt number of the quote fetch
    subnet_info,            \* the quote of this cycle (NoQuote when not fetched)
    alpha_price,            \* chase_ema: spot price local (0 = unbound)
    moving_price,           \* chase_ema: EMA local (0 = unbound)
    current_stake,          \* chase_ema: home-pool stake read in this cycle
    balance,                \* chase_ema: TAO balance read in this cycle
    increment,              \* chase_ema: size found by the search
    alpha_amount,           \* alpha requested from perform_unstake
    total_tao_impact,       \* TAO value of the requested unstake
    success,                \* what perform_stake / perform_unstake returned
    regular_hotkey_balance, \* perform_unstake: home-pool balance read
    validator_balances,     \* perform_unstake: validator pools read, sorted
    vidx,                   \* perform_unstake: next entry of validator_balances
    remaining_unstake,      \* perform_unstake: part of the request not yet confirmed
    total_unstaked,         \* perform_unstake: alpha confirmed unstaked
    needy_wallets,          \* harvest rotation: wallets below the TAO reserve, ranked
    wallets_needing_more_tao, \* harvest rotation: wallets queued for the second pass
    qidx,                   \* harvest rotation: position in the queue being processed
    pass,                   \* harvest rotation: 1 = first pass, 2 = second pass
    alpha_balance,          \* harvest: alpha read over the home and validator pools
    hres,                   \* harvest: what harvest_alpha_for_tao_reserve returned
    nOps,                   \* history: perform_stake / perform_unstake invocations of this cycle
    calls,                  \* history: mutating calls submitted in this cycle, per pool,
                            \* how many of them came back falsy, and the unstake calls
                            \* in the order they were made
    spent,                  \* history: TAO moved by confirmed operations, per wallet,
                            \* counted up to SpentCap
    rb0,                    \* history: remaining_budget when the current cycle began
    cycleEnd,               \* history: how the latest cycle ended
    lastWait,               \* history: the wait made at the end of the latest cycle
    reads,                  \* history: attempts made at each read of the latest cycle
    visits,                 \* history: the wallets' turns of the latest round, in order
                            \* (chase_ema calls of a rotate_wallets round, turns of a
                            \* harvest rotation)
    \* The trade-size search taken by itself (lines 712-752 and 1133-1159):
    slippage_fn,            \* the slippage the oracle quotes for each size
    target_slippage,        \* the slippage aimed at, a fraction
    initial_max,            \* max_increment (max_alpha) when the search is reached
    min_increment,          \* lower end of the bracket
    max_increment,          \* upper end of the bracket
    best_increment,         \* size of the closest probe so far
    closest_slippage,       \* slippage of the closest probe so far
    iterations,             \* the probes made, as (size, slippage)
    searching,              \* where the search stands
    wallet_dirs,            \* startup: the hotkey files of each wallet directory on disk
    holding_wallet,         \* startup: HOLDING_WALLET_NAME (0 = not configured)
    no_password,            \* startup: the coldkeys whose password is blank
    all_wallets,            \* startup: what initialize_wallets returned to __main__
    hodl_stakes,            \* delegation: the holding coldkey's stake on each hotkey
    miner_hotkey,           \* delegation: the hotkey of the miner wallet being processed
    caller,                 \* delegation: the function that delegates
    stakes_to_delegate,     \* delegation: the stake entries to move, as listed
    sidx,                   \* delegation: how many of them the loop has taken
    moves,                  \* delegation: the move_stake calls issued
    delegating              \* delegation: where the function stands

loopVars == << args, chain, txlog, pc, cur, remaining_budget, attempt, subnet_info,
           alpha_price, moving_price, current_stake, balance, increment,
           alpha_amount, total_tao_impact, success, regular_hotkey_balance,
           validator_balances, vidx, remaining_unstake, total_unstaked,
           needy_wallets, wallets_needing_more_tao, qidx, pass, alpha_balance,
           hres, nOps, calls, spent, rb0, cycleEnd, lastWait, reads, visits >>
\* The variables of the trade-size search taken by itself.
searchVars == << slippage_fn, target_slippage, initial_max, min_increment,
                 max_increment, best_increment, closest_slippage, iterations,
                 searching >>
\* The variables of the start of a run.
startupVars == << wallet_dirs, holding_wallet, no_password, all_wallets >>
\* The variables of the delegation to the validator hotkey.
delegateVars == << hodl_stakes, miner_hotkey, caller, stakes_to_delegate, sidx,
                   moves, delegating >>
vars == << loopVars, searchVars, startupVars, delegateVars >>

\* The variables of one perform_unstake invocation.
unstakeLocals == << regular_hotkey_balance, validator_balances, vidx,
                    remaining_unstake, total_unstaked >>
\* The variables of the harvest rotation.
harvestVars == << needy_wallets, wallets_needing_more_tao, qidx, pass,
                  alpha_balance, hres >>
\* The variables of one chase_ema cycle after the quote.
cycleLocals == << current_stake, balance, increment, alpha_amount, total_tao_impact >>

Pools == Validators \cup {"home"}
NoCalls == [add_stake |-> 0, unstake |-> [p \in Pools |-> 0], falsy |-> 0,
            order |-> << >>]

\* A run that never takes the dry-run flag from the command line.
TestModeIgnored == FALSE
\* The global TEST_MODE, set from --test before the loops start.
TEST_MODE == args.test

\* sorted(names): the names of a set in ascending order.  Names are numbered
\* in the order Python compares them.
RECURSIVE Sorted(_)
Sorted(S) ==
    IF S = {} THEN << >>
    ELSE LET least == CHOOSE x \in S : \A y \in S : x <= y
         IN << least >> \o Sorted(S \ {least})

\* The wallet directories that may be on disk: for each coldkey, its hotkey
\* files.
ColdkeyNames == 1..2
HotkeyNames == 1..2
DiskLayouts == [ColdkeyNames -> SUBSET HotkeyNames]

\* get_wallet_groups: the coldkeys that have hotkeys, each with its hotkeys
\* sorted.
get_wallet_groups(disk) ==
    [c \in {d \in DOMAIN disk : disk[d] # {}} |-> Sorted(disk[c])]

\* The wallet/hotkey pairs of the coldkeys in `coldkeys`, coldkey by coldkey.
RECURSIVE PairsOf(_, _)
PairsOf(coldkeys, groups) ==
    IF coldkeys = << >> THEN << >>
    ELSE LET c == Head(coldkeys)
         IN [k \in 1..Len(groups[c]) |-> << c, groups[c][k] >>]
            \o PairsOf(Tail(coldkeys), groups)

\* initialize_wallets: the pairs of every coldkey that is not skipped (the
\* holding wallet, a blank password, a failed unlock), coldkeys in sorted
\* order and the hotkeys of each in sorted order.
initialize_wallets(disk, skipped) ==
    LET groups == get_wallet_groups(disk)
    IN PairsOf(Sorted(DOMAIN groups \ skipped), groups)

\* The wallets of the run, numbered by their place in that list.
unlocked_wallets ==
    IF args.rotate_all_wallets \/ args.harvest_alpha THEN <<1, 2>> ELSE <<1>>
\* The wallet the loop is working on.
wallet ==
    IF ~args.harvest_alpha THEN unlocked_wallets[cur]
    ELSE IF pass = 1 THEN needy_wallets[qidx].wallet
    ELSE wallets_needing_more_tao[qidx]


\* ------------------------------------------------------------- the oracle
\* subnet_info.slippage(size)[1]: the slippage of staking `size` TAO.  It is
\* 0 at size 0, positive above it and non-decreasing in the size.
Slippage(q, size) == (size * size + q.depth - 1) \div q.depth

\* subnet_info.alpha_to_tao_with_slippage(alpha): the sum of its two parts,
\* TAO received plus slippage, is the value of `alpha` at the spot price.
AlphaToTao(price, alpha) == alpha * price

\* The slippage part of alpha_to_tao_with_slippage(alpha), in TAO.
AlphaSlippage(q, alpha) ==
    Min(alpha * q.price, (alpha * alpha * q.price + q.depth - 1) \div q.depth)

SlipOf(kind, q, size) ==
    IF kind = "tao" THEN Slippage(q, size) ELSE AlphaSlippage(q, size)

\* ------------------------------------------------------ trade-size search
\* closest_slippage is << >> while it is float('inf'), else << slippage >>.
Inf == << >>
\* abs(slippage - target), times the target's denominator.
Dist(s, t) == Abs(s * t.den - t.num)
\* A search that keeps its first guess.
NeverCloser(s, closest, t) == FALSE
\* A search that returns its last probe.
LastProbeWins(s, closest, t) == TRUE
\* A search that lets a later probe replace an equally close one.
CloserOrEqual(s, closest, t) == closest = Inf \/ Dist(s, t) <= Dist(closest[1], t)
\* abs(slippage - target) < abs(closest_slippage - target)
Closer(s, closest, t) == closest = Inf \/ Dist(s, t) < Dist(closest[1], t)

\* The bisection loop: one probe per call, starting from bracket [lo, hi].
RECURSIVE Bisect(_, _, _, _, _, _, _)
Bisect(kind, q, t, lo, hi, best, closest) ==
    IF hi - lo <= BracketFloor
    THEN [size |-> best, slippage |-> closest, probes |-> 0]
    ELSE LET mid == (lo + hi) \div 2
             s == SlipOf(kind, q, mid)
             nbest == IF Closer(s, closest, t) THEN mid ELSE best
             nclosest == IF Closer(s, closest, t) THEN << s >> ELSE closest
             rest == IF s * t.den = t.num
                     THEN [size |-> nbest, slippage |-> nclosest, probes |-> 0]
                     ELSE IF s * t.den < t.num
                          THEN Bisect(kind, q, t, mid, hi, nbest, nclosest)
                          ELSE Bisect(kind, q, t, lo, mid, nbest, nclosest)
         IN [rest EXCEPT !.probes = @ + 1]

FindSize(kind, q, t, max_size) == Bisect(kind, q, t, 0, max_size, 0, Inf)

\* ---------------------------------------------------- chase_ema: deciding
\* abs(price_diff_pct) < args.min_price_diff
PriceDiffBelowMin ==
    Abs(alpha_price - moving_price) * 100 < args.min_price_diff * moving_price

\* max_price_diff: --max-price-diff, or its default.
max_price_diff ==
    IF args.max_price_diff = << >> THEN DefaultMaxPriceDiff ELSE args.max_price_diff[1]

\* A cycle that passes --slippage on to the search whatever the deviation.
UnscaledTarget(price, ema) == [num |-> args.slippage, den |-> 1]

\* The slippage target of a cycle that computed `price` and `ema`, as a
\* fraction: args.slippage, times scale_factor under --dynamic-slippage.
TargetSlippageAt(price, ema) ==
    IF ~args.dynamic_slippage
    THEN [num |-> args.slippage, den |-> 1]
    ELSE LET sn == Max(0, Abs(price - ema) * 100 - args.min_price_diff * ema)
             sd == ema * (max_price_diff - args.min_price_diff)
         IN IF max_price_diff > args.min_price_diff
            THEN IF sn >= sd THEN [num |-> args.slippage, den |-> 1]
                             ELSE [num |-> args.slippage * sn, den |-> sd]
            ELSE [num |-> 0, den |-> 1]

\* The slippage target of the cycle.
TargetSlippage == TargetSlippageAt(alpha_price, moving_price)

\* max_increment, the upper end of the search bracket.
MaxIncrement ==
    IF args.budget = 0
    THEN IF alpha_price > moving_price
         THEN AlphaToTao(alpha_price, current_stake - DCA_RESERVE_ALPHA)
         ELSE balance - DCA_RESERVE_TAO
    ELSE remaining_budget

\* The size the search settles on (max_increment > 0).
BestIncrement == FindSize("tao", subnet_info, TargetSlippage, MaxIncrement).size

\* A sizing step that takes the size off the budget twice.
BudgetChargedTwice ==
    IF args.budget > 0 THEN remaining_budget - 2 * Abs(BestIncrement) ELSE remaining_budget
\* remaining_budget after the sizing step.
BudgetAfterSizing ==
    IF args.budget > 0 THEN remaining_budget - Abs(BestIncrement) ELSE remaining_budget

\* The alpha to unstake for the size found, kept above the alpha reserve.
CappedAlphaAmount(inc) ==
    LET available_alpha == current_stake - DCA_RESERVE_ALPHA
    IN IF inc \div alpha_price > available_alpha
       THEN available_alpha ELSE inc \div alpha_price

\* A run in which --one-way-mode restrains nothing.
OneWayModeIgnored(only) == FALSE
\* args.one_way_mode == only: the cycle's direction is the other one, so the
\* cycle is skipped.
OneWayMode(only) == args.one_way_mode = only

\* How the cycle goes on after the reads: the reason it ends, or the
\* operation it performs.
Verdict ==
    IF PriceDiffBelowMin THEN "min_diff"
    ELSE IF alpha_price < moving_price /\ balance < DCA_RESERVE_TAO
    THEN "below_tao_reserve"
    ELSE IF args.budget = 0 /\ alpha_price > moving_price
            /\ current_stake - DCA_RESERVE_ALPHA <= 0
    THEN "no_alpha_excess"
    ELSE IF MaxIncrement <= 0 THEN "exhausted"
    ELSE IF args.budget > 0 /\ BestIncrement > remaining_budget
    THEN "over_budget"
    ELSE IF alpha_price > moving_price
    THEN IF OneWayMode("stake") THEN "one_way_skip"
         ELSE IF current_stake - DCA_RESERVE_ALPHA <= 0 THEN "no_alpha_excess"
         ELSE IF args.budget > 0
                 /\ AlphaToTao(alpha_price, CappedAlphaAmount(BestIncrement))
                      > BudgetAfterSizing
         THEN "unstake_over_budget"
         ELSE "unstake"
    ELSE IF alpha_price < moving_price
    THEN IF OneWayMode("unstake") THEN "one_way_skip"
         ELSE IF args.budget > 0 /\ BestIncrement > BudgetAfterSizing
         THEN "insufficient_budget"
         ELSE "stake"
    ELSE "equal"

\* Whether the sizing step (and its budget update) ran before the cycle took `v`.
SizedBefore(v) ==
    /\ v \notin {"min_diff", "below_tao_reserve", "exhausted", "over_budget"}
    /\ ~(v = "no_alpha_excess" /\ args.budget = 0)

\* The wait chase_ema makes before leaving a cycle that ends for reason `v`.
WaitOf(v) == IF v \in {"min_diff", "one_way_skip", "equal"} THEN "block" ELSE "none"


\* ---------------------------------------------------------------- logging
\* log_operation / SubnetDCADatabase.log_transaction: one row appended.
TransactionRecord(w, operation, amount_tao, amount_alpha, ok, error_msg) ==
    [ wallet |-> w, operation |-> operation, amount_alpha |-> amount_alpha,
      success |-> ok, error_message |-> error_msg, test_mode |-> TEST_MODE ]

\* ------------------------------------------------------------------- Init
InitLocals ==
    /\ remaining_budget = 0
    /\ attempt = 0
    /\ subnet_info = NoQuote
    /\ alpha_price = 0
    /\ moving_price = 0
    /\ current_stake = 0
    /\ balance = 0
    /\ increment = 0
    /\ alpha_amount = 0
    /\ total_tao_impact = 0
    /\ success = FALSE
    /\ regular_hotkey_balance = 0
    /\ validator_balances = << >>
    /\ vidx = 0
    /\ remaining_unstake = 0
    /\ total_unstaked = 0

\* The (success, remaining_deficit, has_more_alpha) of a harvest that failed
\* before it knew the deficit.
NoResult == [success |-> FALSE, remaining_deficit |-> 0, has_more_alpha |-> FALSE]

\* No read attempted yet.
NoReads == [subnet |-> 0, get_stake |-> 0, get_balance |-> 0]

\* The loops before their first step.
LoopInit ==
    /\ needy_wallets = << >>
    /\ wallets_needing_more_tao = << >>
    /\ qidx = 0
    /\ pass = 1
    /\ alpha_balance = 0
    /\ hres = NoResult
    /\ chain = NoLedger
    /\ txlog = << >>
    /\ pc = "idle"
    /\ cur = 1
    /\ InitLocals
    /\ nOps = 0
    /\ calls = NoCalls
    /\ spent = [w \in Wallets |-> 0]
    /\ rb0 = 0
    /\ cycleEnd = "start"
    /\ lastWait = "none"
    /\ reads = NoReads
    /\ visits = << >>

\* The search taken by itself is not run.
SearchAtRest ==
    /\ slippage_fn = << >>
    /\ target_slippage = [num |-> 0, den |-> 1]
    /\ initial_max = 0
    /\ min_increment = 0
    /\ max_increment = 0
    /\ best_increment = 0
    /\ closest_slippage = << >>
    /\ iterations = << >>
    /\ searching = "no"

\* The hotkeys the holding coldkey may have stake on: those of two miners
\* and the validator hotkey, VALIDATOR_HOTKEYS[0].
MinerHotkeys == {"m1", "m2"}
VALIDATOR_HOTKEY == VALIDATOR_HOTKEYS[1]
HodlHotkeys == MinerHotkeys \cup {VALIDATOR_HOTKEY}

\* No delegation is running.
DelegateAtRest ==
    /\ hodl_stakes = [h \in HodlHotkeys |-> 0]
    /\ miner_hotkey = "m1"
    /\ caller = "none"
    /\ stakes_to_delegate = << >>
    /\ sidx = 0
    /\ moves = << >>
    /\ delegating = "no"

\* The run has started: one wallet directory per coldkey, each with one
\* hotkey, no holding wallet configured, every password known.
StartupDone ==
    /\ wallet_dirs = [c \in ColdkeyNames |-> {1}]
    /\ holding_wallet = 0
    /\ no_password = {}
    /\ all_wallets = << << 1, 1 >>, << 2, 1 >> >>

Init ==
    /\ args \in ChaseArgs \cup HarvestArgs
    /\ LoopInit
    /\ SearchAtRest
    /\ StartupDone
    /\ DelegateAtRest

\* ------------------------------------------------------------ the ledger
\* A confirmed add_stake of `amount` TAO at spot price `price`.
Staked(ch, w, amount, price) ==
    [ch EXCEPT ![w].tao = @ - amount, ![w].home = @ + amount \div price]

\* A confirmed unstake of `amount` alpha from stake pool `pool`.
Unstaked(ch, w, pool, amount, price) ==
    IF pool = "home"
    THEN [ch EXCEPT ![w].home = @ - amount, ![w].tao = @ + AlphaToTao(price, amount)]
    ELSE [ch EXCEPT ![w].vali[pool] = @ - amount,
                    ![w].tao = @ + AlphaToTao(price, amount)]

\* Alpha of wallet w over its home pool and every validator pool.
RECURSIVE SumOver(_, _)
SumOver(f, S) ==
    IF S = {} THEN 0
    ELSE LET x == CHOOSE y \in S : TRUE IN f[x] + SumOver(f, S \ {x})
TotalAlpha(ch, w) == ch[w].home + SumOver(ch[w].vali, Validators)

\* ------------------------------------------------- main / rotate_wallets
\* The index of the wallet the outer loops hand to the next chase_ema call.
\* A rotation that never leaves its wallet.
SameWallet == cur
NextWallet == IF cur < Len(unlocked_wallets) THEN cur + 1 ELSE 1

\* What a cycle assigns anew before using it.
ResetLocals ==
    /\ current_stake' = 0
    /\ balance' = 0
    /\ increment' = 0
    /\ alpha_amount' = 0
    /\ total_tao_impact' = 0
    /\ success' = FALSE
    /\ regular_hotkey_balance' = 0
    /\ validator_balances' = << >>
    /\ vidx' = 0
    /\ remaining_unstake' = 0
    /\ total_unstaked' = 0
    /\ calls' = NoCalls
    /\ nOps' = 0
    /\ txlog' = << >>
    /\ chain' = NoLedger

\* chase_ema returns to the outer loop (a break out of its while True),
\* having ended its cycle for reason `v` after the wait `w`.
ReturnFromChase(v, w) ==
    /\ pc' = "idle"
    /\ cur' = NextWallet
    /\ cycleEnd' = v
    /\ lastWait' = w
    /\ UNCHANGED << attempt, subnet_info, alpha_price, moving_price >>

\* chase_ema goes round its while True: the next cycle of the same call.
NextIteration(v, w) ==
    /\ pc' = "quote"
    /\ attempt' = 1
    /\ subnet_info' = NoQuote
    /\ cycleEnd' = v
    /\ lastWait' = w
    /\ UNCHANGED << cur, alpha_price, moving_price >>

\* main / rotate_wallets call chase_ema for the next wallet: the budget is
\* initialized and the connection opened.
EnterChaseEma ==
    /\ pc = "idle"
    /\ ~args.harvest_alpha
    /\ remaining_budget' = args.budget
    /\ rb0' = args.budget
    /\ ResetLocals
    /\ \E connected \in BOOLEAN :
         IF connected
         THEN /\ pc' = "quote"
              /\ attempt' = 1
              /\ subnet_info' = NoQuote
              /\ alpha_price' = 0
              /\ moving_price' = 0
              /\ cycleEnd' = "running"
              /\ UNCHANGED << cur, lastWait >>
         ELSE ReturnFromChase("connect_failed", "none")
    /\ visits' = (IF cur = 1 THEN << >> ELSE visits)
                  \o << [wallet |-> wallet, pass |-> 1, end |-> "chase_ema",
                         wait |-> "none"] >>
    /\ UNCHANGED << args, spent, harvestVars >>
    /\ UNCHANGED << reads, searchVars, startupVars, delegateVars >>

\* ------------------------------------------------ chase_ema: quote fetch
\* A cycle whose except clause ends the program.
CycleAborts(v) ==
    /\ pc' = "exit"
    /\ cycleEnd' = v
    /\ lastWait' = "none"
    /\ UNCHANGED << cur, attempt, subnet_info, alpha_price, moving_price >>

\* The except clause of the cycle: sleep BLOCK_TIME_SECONDS, then break.
CycleFailed(v) == ReturnFromChase(v, "sleep")

\* The retry loop goes to its next attempt, or gives up after max_attempts.
RetryQuote ==
    IF attempt < max_attempts
    THEN /\ attempt' = attempt + 1
         /\ cycleEnd' = "running"
         /\ UNCHANGED << pc, cur, lastWait >>
    ELSE /\ pc' = "idle"
         /\ cur' = NextWallet
         /\ cycleEnd' = "quote_failed"
         /\ lastWait' = "sleep"
         /\ UNCHANGED attempt

\* One attempt of the retry loop around sub.subnet(netuid).
FetchQuote ==
    /\ pc = "quote"
    /\ rb0' = remaining_budget
    /\ reads' = [NoReads EXCEPT !.subnet = attempt]
    /\ ResetLocals
    /\ \E o \in QuoteOutcomes, q \in Quotes :
         \/ /\ o = "ok"
            /\ subnet_info' = q
            /\ alpha_price' = q.price
            /\ moving_price' = q.ema
            /\ pc' = "read"
            /\ cycleEnd' = "running"
            /\ UNCHANGED << attempt, cur, lastWait >>
         \/ /\ o = "attr"
            \* AttributeError naming neither price: the fallback keeps whatever
            \* alpha_price and moving_price are bound to, else it raises.
            /\ subnet_info' = q
            /\ UNCHANGED << alpha_price, moving_price >>
            /\ IF alpha_price # 0 /\ moving_price # 0
               THEN /\ pc' = "read"
                    /\ cycleEnd' = "running"
                    /\ UNCHANGED << attempt, cur, lastWait >>
               ELSE RetryQuote
         \/ /\ o = "none"
            /\ q = CHOOSE x \in Quotes : TRUE
            /\ subnet_info' = NoQuote
            /\ UNCHANGED << alpha_price, moving_price >>
            /\ RetryQuote
         \/ /\ o = "raise"
            /\ q = CHOOSE x \in Quotes : TRUE
            /\ UNCHANGED << subnet_info, alpha_price, moving_price >>
            /\ RetryQuote
    /\ UNCHANGED << args, remaining_budget, spent, harvestVars >>
    /\ UNCHANGED << visits, searchVars, startupVars, delegateVars >>

\* sub.get_stake and sub.get_balance at the top of the cycle: a failing read
\* breaks out of the loop.  The ledger is as the cycle finds it.
ReadBalances ==
    /\ pc = "read"
    /\ \E entry \in Profiles, o1 \in ReadOutcomes, o2 \in ReadOutcomes :
         /\ chain' = [chain EXCEPT ![wallet] = entry]
         /\ reads' = [reads EXCEPT !.get_stake = @ + 1,
                                   !.get_balance = IF o1 = "raise" THEN @ ELSE @ + 1]
         /\ IF o1 = "raise"
            THEN /\ o2 = "ok"
                 /\ entry = CHOOSE e \in Profiles : TRUE
                 /\ ReturnFromChase("stake_read_failed", "none")
                 /\ UNCHANGED << current_stake, balance >>
            ELSE IF o2 = "raise"
            THEN /\ current_stake' = entry.home
                 /\ ReturnFromChase("balance_read_failed", "none")
                 /\ UNCHANGED balance
            ELSE /\ current_stake' = entry.home
                 /\ balance' = entry.tao
                 /\ pc' = "decide"
                 /\ UNCHANGED << cur, cycleEnd, lastWait, attempt, subnet_info,
                                 alpha_price, moving_price >>
    /\ UNCHANGED << args, txlog, remaining_budget, increment, alpha_amount,
                    total_tao_impact, success, unstakeLocals, nOps, calls,
                    spent, rb0, harvestVars >>
    /\ UNCHANGED << visits, searchVars, startupVars, delegateVars >>

\* The cycle from the deviation gate to the call of perform_stake or
\* perform_unstake: gating, sizing, budget update and the direction.
Decide ==
    /\ pc = "decide"
    /\ LET v == Verdict
           sized == SizedBefore(v)
       IN /\ remaining_budget' = IF sized THEN BudgetAfterSizing ELSE remaining_budget
          /\ increment' = IF sized \/ v = "over_budget" THEN BestIncrement ELSE 0
          /\ alpha_amount' = IF v \in {"unstake", "unstake_over_budget"}
                             THEN CappedAlphaAmount(BestIncrement) ELSE 0
          /\ total_tao_impact' = AlphaToTao(alpha_price, alpha_amount')
          /\ IF v = "equal" THEN NextIteration("equal", "block")
             ELSE IF v \in {"stake", "unstake"}
             THEN /\ pc' = v
                  /\ UNCHANGED << cur, cycleEnd, lastWait, attempt, subnet_info,
                                  alpha_price, moving_price >>
             ELSE ReturnFromChase(v, WaitOf(v))
    /\ UNCHANGED << args, chain, txlog, current_stake, balance, success,
                    unstakeLocals, nOps, calls, spent, rb0, harvestVars >>
    /\ UNCHANGED << reads, visits, searchVars, startupVars, delegateVars >>


\* TAO moved by confirmed operations of wallet w, after `amount` more.
SpentCap == args.budget + 1
Spend(w, amount) ==
    IF args.budget > 0
    THEN [spent EXCEPT ![w] = Min(@ + amount, SpentCap)]
    ELSE spent

\* ----------------------------------------------------------- perform_stake
\* A perform_stake that submits again when the confirmation is falsy.
StakeAgainOnFalsy(o) == IF o = "falsy" THEN "stake" ELSE "op_ret"
\* Where perform_stake goes after add_stake came back with outcome `o`: it
\* returns to its caller whatever the outcome.
StakeReturnsTo(o) == "op_ret"

\* perform_stake: in test mode a synthetic success, else one add_stake call;
\* a falsy confirmation is raised as "Stake failed" and logged as a failure.
perform_stake ==
    /\ pc = "stake"
    /\ nOps' = nOps + 1
    /\ IF TEST_MODE
       THEN /\ success' = TRUE
            /\ pc' = "op_ret"
            /\ UNCHANGED << chain, txlog, calls, spent >>
       ELSE \E o \in MutationOutcomes :
              /\ o = "ok" => increment <= chain[wallet].tao
              /\ pc' = StakeReturnsTo(o)
              /\ calls' = [calls EXCEPT !.add_stake = @ + 1,
                                        !.falsy = IF o = "falsy" THEN @ + 1 ELSE @]
              /\ success' = (o = "ok")
              /\ chain' = IF o = "ok"
                          THEN Staked(chain, wallet, increment, alpha_price)
                          ELSE chain
              /\ spent' = IF o = "ok" THEN Spend(wallet, increment) ELSE spent
              /\ txlog' = Append(txlog,
                     TransactionRecord(wallet, "stake", increment,
                                       increment \div alpha_price, o = "ok",
                                       CASE o = "ok" -> None
                                         [] o = "falsy" -> "Stake failed"
                                         [] OTHER -> "raised"))
    /\ UNCHANGED << args, cur, remaining_budget, attempt, subnet_info, alpha_price,
                    moving_price, cycleLocals, unstakeLocals, rb0, cycleEnd,
                    lastWait, harvestVars >>
    /\ UNCHANGED << reads, visits, searchVars, startupVars, delegateVars >>

\* --------------------------------------------------------- perform_unstake
\* A perform_unstake that takes the validator pools in the order read.
Unsorted(seq) == seq
\* validator_balances.sort(key=balance, reverse=True): a stable sort.
RECURSIVE InsertDesc(_, _)
InsertDesc(e, sorted) ==
    IF sorted = << >> THEN << e >>
    ELSE IF Head(sorted).balance >= e.balance
         THEN << Head(sorted) >> \o InsertDesc(e, Tail(sorted))
         ELSE << e >> \o sorted

RECURSIVE SortDesc(_)
SortDesc(seq) ==
    IF seq = << >> THEN << >>
    ELSE InsertDesc(seq[Len(seq)], SortDesc(SubSeq(seq, 1, Len(seq) - 1)))

\* The validator pools whose stake could be read, in VALIDATOR_HOTKEYS order.
ValidatorBalances(w, readable) ==
    LET hk == SelectSeq(VALIDATOR_HOTKEYS, LAMBDA h : h \in readable)
    IN [i \in 1..Len(hk) |-> [hotkey |-> hk[i], balance |-> chain[w].vali[hk[i]]]]

\* The wallet perform_unstake works on.
opWallet == wallet

\* An allocation that asks each pool for all it holds.
WholePool(pool_balance, remaining) == pool_balance
\* min(validator_balance, remaining_unstake) and
\* min(regular_hotkey_balance, remaining_unstake): what a pool is asked for.
UnstakeFromPool(pool_balance, remaining) == Min(pool_balance, remaining)

\* perform_unstake, up to the test-mode branch: the stake reads (a failing
\* read of the home pool fails the operation), the sort, and in test mode
\* the synthetic success.
perform_unstake_read ==
    /\ pc = "unstake"
    /\ nOps' = nOps + 1
    /\ \E o \in ReadOutcomes, readable \in SUBSET Validators :
         IF o = "raise"
         THEN /\ readable = {}
              /\ txlog' = Append(txlog,
                     TransactionRecord(opWallet, "unstake", total_tao_impact,
                                       alpha_amount, FALSE, "get_stake raised"))
              /\ success' = FALSE
              /\ pc' = "op_ret"
              /\ UNCHANGED unstakeLocals
         ELSE /\ regular_hotkey_balance' = chain[opWallet].home
              /\ validator_balances' = SortDesc(ValidatorBalances(opWallet, readable))
              /\ remaining_unstake' = alpha_amount
              /\ total_unstaked' = 0
              /\ UNCHANGED txlog
              /\ IF TEST_MODE
                 THEN /\ success' = TRUE
                      /\ pc' = "op_ret"
                      /\ vidx' = 0
                 ELSE /\ pc' = "unstake_vali"
                      /\ vidx' = 1
                      /\ UNCHANGED success
    /\ UNCHANGED << args, chain, cur, remaining_budget, attempt, subnet_info,
                    alpha_price, moving_price, cycleLocals, calls, spent, rb0,
                    cycleEnd, lastWait, harvestVars >>
    /\ UNCHANGED << reads, visits, searchVars, startupVars, delegateVars >>

\* One turn of the loop over validator_balances: at most one unstake call,
\* counted only when confirmed.
perform_unstake_validator ==
    /\ pc = "unstake_vali"
    /\ vidx <= Len(validator_balances)
    /\ remaining_unstake > 0
    /\ LET e == validator_balances[vidx]
           validator_unstake == UnstakeFromPool(e.balance, remaining_unstake)
       IN IF e.balance > 0 /\ validator_unstake > 0
          THEN \E o \in MutationOutcomes :
                 /\ calls' = [calls EXCEPT !.unstake[e.hotkey] = @ + 1,
                                           !.falsy = IF o = "falsy" THEN @ + 1 ELSE @,
                                           !.order = Append(@,
                                               [pool |-> e.hotkey,
                                                remaining |-> remaining_unstake])]
                 /\ IF o = "ok"
                    THEN /\ chain' = Unstaked(chain, opWallet, e.hotkey,
                                              validator_unstake, alpha_price)
                         /\ total_unstaked' = total_unstaked + validator_unstake
                         /\ remaining_unstake' = remaining_unstake - validator_unstake
                    ELSE UNCHANGED << chain, total_unstaked, remaining_unstake >>
          ELSE UNCHANGED << chain, calls, total_unstaked, remaining_unstake >>
    /\ vidx' = vidx + 1
    /\ UNCHANGED << args, txlog, pc, cur, remaining_budget, attempt, subnet_info,
                    alpha_price, moving_price, cycleLocals, success,
                    regular_hotkey_balance, validator_balances, nOps, spent, rb0,
                    cycleEnd, lastWait, harvestVars >>
    /\ UNCHANGED << reads, visits, searchVars, startupVars, delegateVars >>

\* total_tao_impact scaled by the proportion actually unstaked.
AdjustedTaoImpact(total) ==
    IF alpha_amount > 0 THEN (total_tao_impact * total) \div alpha_amount ELSE 0

\* The rest of perform_unstake in live mode: the home pool if part of the
\* request is uncovered, the quote for the log, the record and the result.
perform_unstake_regular ==
    /\ pc = "unstake_vali"
    /\ vidx > Len(validator_balances) \/ remaining_unstake <= 0
    /\ LET regular_unstake == UnstakeFromPool(regular_hotkey_balance, remaining_unstake)
           submit == remaining_unstake > 0 /\ regular_unstake > 0
       IN \E o \in MutationOutcomes, r \in ReadOutcomes :
            /\ ~submit => o = "falsy"
            /\ LET confirmed == submit /\ o = "ok"
                   total == IF confirmed THEN total_unstaked + regular_unstake
                                         ELSE total_unstaked
               IN /\ calls' = IF submit
                              THEN [calls EXCEPT !.unstake["home"] = @ + 1,
                                       !.falsy = IF o = "falsy" THEN @ + 1 ELSE @,
                                       !.order = Append(@,
                                           [pool |-> "home",
                                            remaining |-> remaining_unstake])]
                              ELSE calls
                  /\ chain' = IF confirmed
                              THEN Unstaked(chain, opWallet, "home", regular_unstake,
                                            alpha_price)
                              ELSE chain
                  /\ total_unstaked' = total
                  /\ spent' = Spend(opWallet, AdjustedTaoImpact(total))
                  /\ success' = (r = "ok")
                  /\ txlog' = Append(txlog,
                        IF r = "ok"
                        THEN TransactionRecord(opWallet, "unstake",
                                 AdjustedTaoImpact(total), total, TRUE, None)
                        ELSE TransactionRecord(opWallet, "unstake", total_tao_impact,
                                 alpha_amount, FALSE, "raised"))
    /\ pc' = "op_ret"
    /\ UNCHANGED << args, cur, remaining_budget, attempt, subnet_info, alpha_price,
                    moving_price, cycleLocals, regular_hotkey_balance,
                    validator_balances, vidx, remaining_unstake, nOps, rb0,
                    cycleEnd, lastWait, harvestVars >>
    /\ UNCHANGED << reads, visits, searchVars, startupVars, delegateVars >>

\* ------------------------------------------- chase_ema: after the operation
\* A chase_ema that stays with its wallet after an operation.
StaysAfterOperation == FALSE
\* if args.rotate_all_wallets: ... break, after the operation of a cycle.
BreaksAfterOperation == args.rotate_all_wallets
\* The budget update after a successful operation, the balance reads, the
\* balances row and the wait for the next block.
AfterOperation ==
    /\ pc = "op_ret"
    /\ ~args.harvest_alpha
    /\ remaining_budget' =
         IF success /\ args.budget > 0
         THEN remaining_budget - (IF alpha_price > moving_price
                                  THEN total_tao_impact ELSE increment)
         ELSE remaining_budget
    /\ \E o1 \in ReadOutcomes, o2 \in ReadOutcomes :
         IF o1 = "raise" \/ o2 = "raise"
         THEN /\ o1 = "raise" => o2 = "ok"
              /\ CycleFailed("postop_failed")
         ELSE IF BreaksAfterOperation
              THEN ReturnFromChase("op_done", "block")
              ELSE NextIteration("op_done", "block")
    /\ UNCHANGED << args, chain, txlog, cycleLocals, success, unstakeLocals, nOps,
                    calls, spent, rb0, harvestVars >>
    /\ UNCHANGED << reads, visits, searchVars, startupVars, delegateVars >>

\* --------------------------------------------- rotate_wallets_for_harvest
\* What the pre-fetch can record for wallet w: a failing read counts as 0.
WalletInfo(w, entry, home_ok, readable, bal_ok) ==
    LET alpha == (IF home_ok THEN entry.home ELSE 0) + SumOver(entry.vali, readable)
        tao == IF bal_ok THEN entry.tao ELSE 0
    IN [ wallet |-> w,
         available_alpha |-> Max(0, alpha - DCA_RESERVE_ALPHA),
         tao_deficit |-> Max(0, DCA_RESERVE_TAO - tao) ]
PrefetchedInfo(w) ==
    { WalletInfo(w, entry, home_ok, readable, bal_ok) :
        entry \in Profiles, home_ok \in BOOLEAN,
        readable \in SUBSET Validators, bal_ok \in BOOLEAN }

\* A rotation that takes the needy wallets in the order they were fetched.
FetchOrder(seq) == seq
\* needy_wallets.sort(key=available_alpha, reverse=True): a stable sort.
RECURSIVE InsertByAvailable(_, _)
InsertByAvailable(e, sorted) ==
    IF sorted = << >> THEN << e >>
    ELSE IF Head(sorted).available_alpha >= e.available_alpha
         THEN << Head(sorted) >> \o InsertByAvailable(e, Tail(sorted))
         ELSE << e >> \o sorted

RECURSIVE SortByAvailable(_)
SortByAvailable(seq) ==
    IF seq = << >> THEN << >>
    ELSE InsertByAvailable(seq[Len(seq)], SortByAvailable(SubSeq(seq, 1, Len(seq) - 1)))

\* The wallets below the TAO reserve, most available alpha first.
NeedyWallets(wallet_data) ==
    LET needy == SelectSeq(wallet_data, LAMBDA i : i.tao_deficit > 0)
    IN SortByAvailable([k \in 1..Len(needy) |->
                          [wallet |-> needy[k].wallet,
                           available_alpha |-> needy[k].available_alpha]])

\* Every wallet_data the pre-fetch can record, and every ranking of needy
\* wallets that follows from one.
WalletData == { << i1, i2 >> : i1 \in PrefetchedInfo(1), i2 \in PrefetchedInfo(2) }
NeedyQueues == { NeedyWallets(wallet_data) : wallet_data \in WalletData }

\* Nothing of a harvest is bound: the locals of a wallet the loop skipped,
\* or whose harvest has returned.
NoHarvestLocals ==
    /\ subnet_info' = NoQuote
    /\ alpha_price' = 0
    /\ moving_price' = 0
    /\ current_stake' = 0
    /\ balance' = 0
    /\ alpha_balance' = 0
    /\ alpha_amount' = 0
    /\ total_tao_impact' = 0
    /\ chain' = NoLedger

\* What a wallet's turn assigns anew, whatever becomes of it.
ResetTurn ==
    /\ increment' = 0
    /\ success' = FALSE
    /\ regular_hotkey_balance' = 0
    /\ validator_balances' = << >>
    /\ vidx' = 0
    /\ remaining_unstake' = 0
    /\ total_unstaked' = 0
    /\ calls' = NoCalls
    /\ nOps' = 0
    /\ txlog' = << >>

\* The start of a rotation: the price and every wallet's balances are
\* fetched, the needy wallets ranked.  A rotation with no needy wallet
\* returns at once; one whose fetch fails, or whose connection for the
\* passes fails, sleeps and ends.
rotate_wallets_for_harvest ==
    /\ pc = "idle"
    /\ args.harvest_alpha
    /\ ResetTurn
    /\ NoHarvestLocals
    /\ hres' = NoResult
    /\ wallets_needing_more_tao' = << >>
    /\ pass' = 1
    /\ \E fetched \in BOOLEAN, needy \in NeedyQueues, connected \in BOOLEAN :
            IF ~fetched
            THEN /\ needy = << >>
                 /\ connected
                 /\ needy_wallets' = << >>
                 /\ qidx' = 0
                 /\ cycleEnd' = "prefetch_failed"
                 /\ lastWait' = "sleep"
                 /\ UNCHANGED pc
            ELSE IF needy = << >>
            THEN /\ connected
                 /\ needy_wallets' = << >>
                 /\ qidx' = 0
                 /\ cycleEnd' = "all_sufficient"
                 /\ lastWait' = "none"
                 /\ UNCHANGED pc
            ELSE IF ~connected
            THEN /\ needy_wallets' = needy
                 /\ qidx' = 0
                 /\ cycleEnd' = "connect_failed"
                 /\ lastWait' = "sleep"
                 /\ UNCHANGED pc
            ELSE /\ needy_wallets' = needy
                 /\ qidx' = 1
                 /\ pc' = "harvest"
                 /\ cycleEnd' = "running"
                 /\ UNCHANGED lastWait
    /\ UNCHANGED << args, cur, remaining_budget, attempt, spent, rb0 >>
    /\ visits' = << >>
    /\ UNCHANGED << reads, searchVars, startupVars, delegateVars >>

\* The loop goes to the wallet after this one, whose turn ended for reason
\* `v` after the wait `w`, `more` being the second-pass queue by now: the
\* next in the queue, else the second pass, else the end of the rotation.
NextInQueue(v, w, more) ==
    /\ cycleEnd' = v
    /\ visits' = Append(visits, [wallet |-> wallet, pass |-> pass, end |-> v, wait |-> w])
    /\ IF qidx < (IF pass = 1 THEN Len(needy_wallets) ELSE Len(more))
       THEN /\ qidx' = qidx + 1
            /\ pc' = "harvest"
            /\ lastWait' = w
            /\ wallets_needing_more_tao' = more
            /\ UNCHANGED << pass, needy_wallets >>
       ELSE IF pass = 1 /\ more # << >>
       THEN /\ qidx' = 1
            /\ pass' = 2
            /\ pc' = "harvest"
            /\ lastWait' = w
            /\ wallets_needing_more_tao' = more
            /\ UNCHANGED needy_wallets
       ELSE /\ pc' = "rotation_end"
            /\ lastWait' = w
            /\ wallets_needing_more_tao' = more
            /\ UNCHANGED << qidx, pass, needy_wallets >>

\* The rotation is complete: its sleep of two block times, and the return
\* to main, which starts the next rotation.
EndRotation ==
    /\ pc = "rotation_end"
    /\ pc' = "idle"
    /\ cycleEnd' = "rotation_done"
    /\ lastWait' = "sleep"
    /\ hres' = NoResult
    /\ needy_wallets' = << >>
    /\ wallets_needing_more_tao' = << >>
    /\ qidx' = 0
    /\ pass' = 1
    /\ UNCHANGED << args, chain, txlog, cur, remaining_budget, attempt, subnet_info,
                    alpha_price, moving_price, cycleLocals, success, unstakeLocals,
                    alpha_balance, nOps, calls, spent, rb0 >>
    /\ UNCHANGED << reads, visits, searchVars, startupVars, delegateVars >>

\* A rotation whose second pass queues wallets as the first does.
QueuedInEveryPass(res) ==
    IF res.success /\ res.remaining_deficit > 0 /\ res.has_more_alpha
    THEN Append(wallets_needing_more_tao, wallet)
    ELSE wallets_needing_more_tao

\* The second-pass queue after a first-pass harvest returned `res`.
QueuedForSecondPass(res) ==
    IF pass = 1 /\ res.success /\ res.remaining_deficit > 0 /\ res.has_more_alpha
    THEN Append(wallets_needing_more_tao, wallet)
    ELSE wallets_needing_more_tao

\* First pass: a wallet that had no available alpha at the pre-fetch is
\* passed over, without a wait.
SkipWallet ==
    /\ pc = "harvest"
    /\ pass = 1
    /\ needy_wallets[qidx].available_alpha <= 0
    /\ ResetTurn
    /\ NoHarvestLocals
    /\ hres' = NoResult
    /\ NextInQueue("harvest_skip", "none", wallets_needing_more_tao)
    /\ UNCHANGED << args, cur, remaining_budget, attempt, spent, rb0 >>
    /\ UNCHANGED << reads, searchVars, startupVars, delegateVars >>

\* ------------------------------------------ harvest_alpha_for_tao_reserve
\* A harvest that sizes for the whole estimate, whatever alpha is available.
UnlimitedAlphaToUnstake(tao_deficit, price, available_alpha) == tao_deficit \div price
\* alpha_to_unstake: the estimate of the alpha that covers the deficit,
\* limited to the alpha above the reserve.
AlphaNeededEstimate(tao_deficit, price) == tao_deficit \div price
AlphaToUnstake(tao_deficit, price, available_alpha) ==
    Min(AlphaNeededEstimate(tao_deficit, price), available_alpha)

\* What the harvest of a wallet decides once its reads are done: to return
\* `res` for reason `v`, or to call perform_unstake for `alpha_amount`.
HarvestPlan(q, tao_balance, alpha) ==
    LET tao_deficit == DCA_RESERVE_TAO - tao_balance
        available_alpha == alpha - DCA_RESERVE_ALPHA
        best_alpha == FindSize("alpha", q, [num |-> args.slippage, den |-> 1],
                               AlphaToUnstake(tao_deficit, q.price, available_alpha)).size
    IN IF tao_balance >= DCA_RESERVE_TAO
       THEN [ v |-> "harvest_sufficient", call |-> FALSE, alpha_amount |-> 0,
              res |-> [success |-> TRUE, remaining_deficit |-> 0,
                       has_more_alpha |-> TRUE] ]
       ELSE IF available_alpha <= 0
       THEN [ v |-> "harvest_no_excess", call |-> FALSE, alpha_amount |-> 0,
              res |-> [success |-> FALSE, remaining_deficit |-> tao_deficit,
                       has_more_alpha |-> FALSE] ]
       ELSE IF best_alpha < MIN_UNSTAKE_ALPHA
       THEN [ v |-> "harvest_below_min", call |-> FALSE, alpha_amount |-> best_alpha,
              res |-> IF tao_deficit < MIN_TAO_DEFICIT
                      THEN [success |-> TRUE, remaining_deficit |-> 0,
                            has_more_alpha |-> FALSE]
                      ELSE [success |-> FALSE, remaining_deficit |-> tao_deficit,
                            has_more_alpha |-> available_alpha > 0] ]
       ELSE [ v |-> "harvest_unstake", call |-> TRUE, alpha_amount |-> best_alpha,
              res |-> NoResult ]

\* harvest_alpha_for_tao_reserve up to its call of perform_unstake, and the
\* caller's bookkeeping when it returns without one: the quote (fetched in
\* at most max_attempts attempts), the reads, the sizing and the thresholds.
harvest_alpha_for_tao_reserve ==
    /\ pc = "harvest"
    /\ ~(pass = 1 /\ needy_wallets[qidx].available_alpha <= 0)
    /\ ResetTurn
    /\ \E quoted \in BOOLEAN, q \in Quotes, entry \in Profiles,
          o1 \in ReadOutcomes, readable \in SUBSET Validators, o2 \in ReadOutcomes :
         IF ~quoted \/ o1 = "raise" \/ o2 = "raise"
         THEN /\ q = CHOOSE x \in Quotes : TRUE
              /\ entry = CHOOSE e \in Profiles : TRUE
              /\ readable = {}
              /\ ~quoted => (o1 = "ok" /\ o2 = "ok")
              /\ o1 = "raise" => o2 = "ok"
              /\ NoHarvestLocals
              /\ hres' = NoResult
              /\ NextInQueue(IF quoted THEN "harvest_read_failed"
                                       ELSE "harvest_quote_failed",
                             "block", wallets_needing_more_tao)
         ELSE LET alpha == entry.home + SumOver(entry.vali, readable)
                  plan == HarvestPlan(q, entry.tao, alpha)
              IN /\ hres' = plan.res
                 /\ IF plan.call
                    THEN /\ subnet_info' = q
                         /\ alpha_price' = q.price
                         /\ moving_price' = q.ema
                         /\ current_stake' = entry.home
                         /\ balance' = entry.tao
                         /\ alpha_balance' = alpha
                         /\ chain' = [NoLedger EXCEPT ![wallet] = entry]
                         /\ alpha_amount' = plan.alpha_amount
                         /\ total_tao_impact' = AlphaToTao(q.price, plan.alpha_amount)
                         /\ pc' = "unstake"
                         /\ cycleEnd' = "running"
                         /\ UNCHANGED << needy_wallets, wallets_needing_more_tao,
                                         qidx, pass, lastWait, visits >>
                    ELSE /\ NoHarvestLocals
                         /\ NextInQueue(plan.v, "block", QueuedForSecondPass(plan.res))
    /\ UNCHANGED << args, cur, remaining_budget, attempt, spent, rb0 >>
    /\ UNCHANGED << reads, searchVars, startupVars, delegateVars >>

\* What harvest_alpha_for_tao_reserve returns after perform_unstake.
HarvestResult ==
    IF success
    THEN [ success |-> TRUE,
           remaining_deficit |-> Max(0, DCA_RESERVE_TAO - (balance + total_tao_impact)),
           has_more_alpha |-> (alpha_balance - alpha_amount) - DCA_RESERVE_ALPHA > 0 ]
    ELSE [ success |-> FALSE,
           remaining_deficit |-> DCA_RESERVE_TAO - balance,
           has_more_alpha |-> alpha_balance - DCA_RESERVE_ALPHA > 0 ]

\* perform_unstake has returned to harvest_alpha_for_tao_reserve, which
\* returns to the rotation: the second-pass queue, the wait for a block.
AfterHarvest ==
    /\ pc = "op_ret"
    /\ args.harvest_alpha
    /\ hres' = HarvestResult
    /\ NextInQueue(IF success THEN "harvest_done" ELSE "harvest_failed", "block",
                   QueuedForSecondPass(HarvestResult))
    /\ ResetTurn
    /\ NoHarvestLocals
    /\ UNCHANGED << args, cur, remaining_budget, attempt, spent, rb0 >>
    /\ UNCHANGED << reads, searchVars, startupVars, delegateVars >>

Next ==
    \/ EnterChaseEma
    \/ FetchQuote
    \/ ReadBalances
    \/ Decide
    \/ perform_stake
    \/ perform_unstake_read
    \/ perform_unstake_validator
    \/ perform_unstake_regular
    \/ AfterOperation
    \/ rotate_wallets_for_harvest
    \/ SkipWallet
    \/ harvest_alpha_for_tao_reserve
    \/ AfterHarvest
    \/ EndRotation

Spec == Init /\ [][Next]_vars

\* --------------------------------------------- the harvest mode, by itself
\* main with --harvest-alpha: rotation after rotation, and nothing else.
HarvestInit ==
    /\ StartupDone
    /\ DelegateAtRest
    /\ args \in HarvestArgs
    /\ LoopInit
    /\ SearchAtRest

HarvestNext ==
    \/ rotate_wallets_for_harvest
    \/ SkipWallet
    \/ harvest_alpha_for_tao_reserve
    \/ perform_unstake_read
    \/ perform_unstake_validator
    \/ perform_unstake_regular
    \/ AfterHarvest
    \/ EndRotation

HarvestSpec == HarvestInit /\ [][HarvestNext]_vars

\* ------------------------------------- the trade-size search, by itself
\* The search of chase_ema (and, on alpha, of harvest_alpha_for_tao_reserve)
\* run step by step on any non-decreasing slippage function, any target and
\* any upper end of the bracket.
SlippageFunctions ==
    { f \in [0..MaxSize -> 0..MaxSlippage] :
        \A x \in 0..(MaxSize - 1) : f[x] <= f[x + 1] }
Targets == { [num |-> n, den |-> 2] : n \in 0..(2 * MaxSlippage + 2) }

\* The sizes a float can hold.  One unit of size is the floor of the bracket
\* (1e-12): below CoarseFrom neighbouring floats are closer than that, from
\* CoarseFrom on (8192 for a double) they are further apart, two units here.
Representable(x) == x < CoarseFrom \/ x % 2 = 0

\* (lo + hi) / 2 in floating point: the representable size nearest to the
\* exact midpoint, the one with the even mantissa on a tie.
Midpoint(lo, hi) ==
    LET twice == lo + hi
        down == (twice \div 4) * 4
    IN IF twice < 2 * CoarseFrom THEN twice \div 2
       ELSE IF twice - down < 2 THEN down \div 2
       ELSE IF twice - down > 2 THEN (down + 4) \div 2
       ELSE IF down % 8 = 0 THEN down \div 2
       ELSE (down + 4) \div 2

SearchInit ==
    /\ StartupDone
    /\ DelegateAtRest
    /\ args = DefaultArgs
    /\ LoopInit
    /\ slippage_fn \in SlippageFunctions
    /\ target_slippage \in Targets
    /\ initial_max \in { x \in (-1)..MaxSize : Representable(x) }
    /\ min_increment = 0
    /\ max_increment = initial_max
    /\ best_increment = 0
    /\ closest_slippage = Inf
    /\ iterations = << >>
    /\ searching = "entry"

\* A check that lets a bracket of width 0 through.
ExhaustedBelowZero(max) == max < 0
\* if max_increment <= 0: nothing left to trade.
Exhausted(max) == max <= 0

\* The cycle breaks before the search: no trade.
SearchSkipped ==
    /\ searching = "entry"
    /\ Exhausted(max_increment)
    /\ searching' = "no_trade"
    /\ UNCHANGED << slippage_fn, target_slippage, initial_max, min_increment,
                    max_increment, best_increment, closest_slippage, iterations >>
    /\ UNCHANGED << loopVars, startupVars, delegateVars >>

SearchEntered ==
    /\ searching = "entry"
    /\ ~Exhausted(max_increment)
    /\ searching' = "loop"
    /\ UNCHANGED << slippage_fn, target_slippage, initial_max, min_increment,
                    max_increment, best_increment, closest_slippage, iterations >>
    /\ UNCHANGED << loopVars, startupVars, delegateVars >>

\* One turn of the while loop: the midpoint is probed, recorded if it is
\* the closest so far, and the bracket moved to it unless the target is met.
\* The loop is followed for MaxProbes turns.
SearchProbe ==
    /\ searching = "loop"
    /\ max_increment - min_increment > BracketFloor
    /\ Len(iterations) < MaxProbes
    /\ LET current_increment == Midpoint(min_increment, max_increment)
           slippage == slippage_fn[current_increment]
           closer == Closer(slippage, closest_slippage, target_slippage)
       IN /\ iterations' = Append(iterations, << current_increment, slippage >>)
          /\ closest_slippage' = IF closer THEN << slippage >> ELSE closest_slippage
          /\ best_increment' = IF closer THEN current_increment ELSE best_increment
          /\ IF Dist(slippage, target_slippage) = 0
             THEN /\ searching' = "done"
                  /\ UNCHANGED << min_increment, max_increment >>
             ELSE IF slippage * target_slippage.den < target_slippage.num
             THEN /\ min_increment' = current_increment
                  /\ UNCHANGED << max_increment, searching >>
             ELSE /\ max_increment' = current_increment
                  /\ UNCHANGED << min_increment, searching >>
    /\ UNCHANGED << slippage_fn, target_slippage, initial_max >>
    /\ UNCHANGED << loopVars, startupVars, delegateVars >>

\* The bracket is no wider than the floor: the loop ends.
SearchExhausted ==
    /\ searching = "loop"
    /\ max_increment - min_increment <= BracketFloor
    /\ searching' = "done"
    /\ UNCHANGED << slippage_fn, target_slippage, initial_max, min_increment,
                    max_increment, best_increment, closest_slippage, iterations >>
    /\ UNCHANGED << loopVars, startupVars, delegateVars >>

SearchNext ==
    \/ SearchSkipped
    \/ SearchEntered
    \/ SearchProbe
    \/ SearchExhausted

SearchSpec == SearchInit /\ [][SearchNext]_vars

\* The sizes probed so far.
Probed == { iterations[i][1] : i \in 1..Len(iterations) }
\* abs(slippage - target) at size x, times the target's denominator.
DistAt(x) == Dist(slippage_fn[x], target_slippage)
\* The target lies between the slippage at 0 and the slippage at the upper
\* end of the bracket.
TargetReachable ==
    /\ initial_max >= 0
    /\ slippage_fn[0] * target_slippage.den <= target_slippage.num
    /\ target_slippage.num <= slippage_fn[initial_max] * target_slippage.den

\* ------------------------------------------- perform_unstake, by itself
\* perform_unstake called in live mode for any amount, on a wallet with any
\* balances in its home and validator pools.
PoolBalances ==
    { [tao |-> 0, home |-> h, vali |-> v] :
        h \in 0..MaxPoolBalance, v \in [Validators -> 0..MaxPoolBalance] }
AllocQuote == [price |-> 2, ema |-> 1, depth |-> 8]

AllocInit ==
    /\ StartupDone
    /\ DelegateAtRest
    /\ args = DefaultArgs
    /\ SearchAtRest
    /\ \E entry \in PoolBalances : chain = [NoLedger EXCEPT ![1] = entry]
    /\ alpha_amount \in 0..MaxRequest
    /\ total_tao_impact = AlphaToTao(AllocQuote.price, alpha_amount)
    /\ subnet_info = AllocQuote
    /\ alpha_price = AllocQuote.price
    /\ moving_price = AllocQuote.ema
    /\ pc = "unstake"
    /\ cur = 1
    /\ cycleEnd = "running"
    /\ lastWait = "none"
    /\ reads = [subnet |-> 1, get_stake |-> 1, get_balance |-> 1]
    /\ visits = << >>
    /\ attempt = 1
    /\ remaining_budget = 0
    /\ rb0 = 0
    /\ current_stake = chain[1].home
    /\ balance = 0
    /\ increment = AlphaToTao(AllocQuote.price, alpha_amount)
    /\ success = FALSE
    /\ regular_hotkey_balance = 0
    /\ validator_balances = << >>
    /\ vidx = 0
    /\ remaining_unstake = 0
    /\ total_unstaked = 0
    /\ needy_wallets = << >>
    /\ wallets_needing_more_tao = << >>
    /\ qidx = 0
    /\ pass = 1
    /\ alpha_balance = 0
    /\ hres = NoResult
    /\ txlog = << >>
    /\ nOps = 0
    /\ calls = NoCalls
    /\ spent = [w \in Wallets |-> 0]

AllocNext ==
    \/ perform_unstake_read
    \/ perform_unstake_validator
    \/ perform_unstake_regular

AllocSpec == AllocInit /\ [][AllocNext]_vars

\* ------------------------------------- the dynamic slippage, by itself
\* The scaling of chase_ema (lines 667-682) on any spot price and EMA up to
\* MaxPrice that pass the deviation gate, for the --slippage,
\* --min-price-diff and --max-price-diff that parse_arguments accepts.
PriceDiffs == {0, 25, 50, 100}
\* parse_arguments rejects an explicit --max-price-diff below --min-price-diff.
MaxPriceDiffOptions(lo) ==
    { << >> } \cup { << d >> : d \in { x \in PriceDiffs : x >= lo } }
ScaleArgs ==
    UNION { { [DefaultArgs EXCEPT !.dynamic_slippage = TRUE, !.slippage = s,
                                  !.min_price_diff = lo, !.max_price_diff = hi] :
                s \in 1..MaxSlippage, hi \in MaxPriceDiffOptions(lo) } :
            lo \in PriceDiffs }

ScaleInit ==
    /\ StartupDone
    /\ DelegateAtRest
    /\ args \in ScaleArgs
    /\ alpha_price \in 1..MaxPrice
    /\ moving_price \in 1..MaxPrice
    /\ ~PriceDiffBelowMin
    /\ subnet_info = [price |-> alpha_price, ema |-> moving_price, depth |-> 2]
    /\ SearchAtRest
    /\ chain = NoLedger
    /\ pc = "decide"
    /\ cur = 1
    /\ cycleEnd = "running"
    /\ lastWait = "none"
    /\ reads = [subnet |-> 1, get_stake |-> 1, get_balance |-> 1]
    /\ visits = << [wallet |-> 1, pass |-> 1, end |-> "chase_ema", wait |-> "none"] >>
    /\ attempt = 1
    /\ remaining_budget = 0
    /\ rb0 = 0
    /\ current_stake = 0
    /\ balance = 0
    /\ increment = 0
    /\ alpha_amount = 0
    /\ total_tao_impact = 0
    /\ success = FALSE
    /\ regular_hotkey_balance = 0
    /\ validator_balances = << >>
    /\ vidx = 0
    /\ remaining_unstake = 0
    /\ total_unstaked = 0
    /\ needy_wallets = << >>
    /\ wallets_needing_more_tao = << >>
    /\ qidx = 0
    /\ pass = 1
    /\ alpha_balance = 0
    /\ hres = NoResult
    /\ txlog = << >>
    /\ nOps = 0
    /\ calls = NoCalls
    /\ spent = [w \in Wallets |-> 0]

\* target_slippage is computed and handed to the search.
ScaleTarget ==
    /\ pc = "decide"
    /\ searching = "no"
    /\ target_slippage' = TargetSlippage
    /\ searching' = "entry"
    /\ UNCHANGED << loopVars, startupVars, delegateVars >>
    /\ UNCHANGED << slippage_fn, initial_max, min_increment, max_increment,
                    best_increment, closest_slippage, iterations >>

ScaleSpec == ScaleInit /\ [][ScaleTarget]_vars

\* ------------------------------------- the start of a run, taken by itself
\* The args parameter of initialize_wallets is << >> when the caller passes
\* none (its default, None), else the one namespace passed.
\* hasattr(args, 'harvest_alpha') and args.harvest_alpha, on that parameter.
in_alpha_harvest_mode(a) == a # << >> /\ a[1].harvest_alpha

\* initialize_wallets(bt, args=a) without a wallet name: every coldkey with
\* hotkeys, but the holding wallet unless in_alpha_harvest_mode and the
\* coldkeys whose password is blank.
InitializeAll(a) ==
    LET coldkeys == DOMAIN get_wallet_groups(wallet_dirs)
        holding == IF holding_wallet \in coldkeys /\ ~in_alpha_harvest_mode(a)
                   THEN {holding_wallet} ELSE {}
    IN initialize_wallets(wallet_dirs, holding \cup no_password)

\* The command lines with --rotate-all-wallets.
StartupArgs ==
    { [a EXCEPT !.rotate_all_wallets = TRUE, !.harvest_alpha = h] :
        a \in {DefaultArgs, [DefaultArgs EXCEPT !.test = TRUE]}, h \in BOOLEAN }

StartupInit ==
    /\ args \in StartupArgs
    /\ pc = "startup"
    /\ needy_wallets = << >>
    /\ wallets_needing_more_tao = << >>
    /\ qidx = 0
    /\ pass = 1
    /\ alpha_balance = 0
    /\ hres = NoResult
    /\ chain = NoLedger
    /\ txlog = << >>
    /\ cur = 1
    /\ InitLocals
    /\ nOps = 0
    /\ calls = NoCalls
    /\ spent = [w \in Wallets |-> 0]
    /\ rb0 = 0
    /\ cycleEnd = "start"
    /\ lastWait = "none"
    /\ reads = NoReads
    /\ visits = << >>
    /\ SearchAtRest
    /\ wallet_dirs \in DiskLayouts
    /\ holding_wallet \in {0} \cup ColdkeyNames
    /\ no_password \in SUBSET ColdkeyNames
    /\ all_wallets = << >>
    /\ DelegateAtRest

\* __main__ with --rotate-all-wallets: initialize_wallets(bt), then main,
\* which starts its loop on the wallets it was given (in EMA-chasing mode,
\* on those of a second initialize_wallets(bt)); sys.exit(1) when no wallet
\* was found or unlocked.
Startup ==
    /\ pc = "startup"
    /\ args.rotate_all_wallets
    /\ all_wallets' = InitializeAll(<< >>)
    /\ pc' = IF all_wallets' = << >> THEN "exit" ELSE "idle"
    /\ UNCHANGED << wallet_dirs, holding_wallet, no_password, searchVars, delegateVars >>
    /\ UNCHANGED << args, chain, txlog, cur, remaining_budget, attempt, subnet_info,
                    alpha_price, moving_price, cycleLocals, success, unstakeLocals,
                    harvestVars, nOps, calls, spent, rb0, cycleEnd, lastWait,
                    reads, visits >>

StartupSpec == StartupInit /\ [][Startup]_vars

\* --------------------- the delegation to the validator hotkey, by itself
\* The orders in which the chain may list the stake entries of a coldkey.
ListingOrders == { << "m1", "m2" >>, << "m2", "m1" >> }
\* Outcomes of subtensor.move_stake: a truthy confirmation, a falsy one, an
\* exception.
MoveOutcomes == {"ok", "falsy", "raise"}

\* The holding coldkey has stake on the hotkeys of miners (what
\* send_miner_alpha_to_hodl transferred, what an earlier run left behind)
\* and on the validator hotkey; delegate_hodl_alpha_to_vali is entered for
\* one miner wallet, or repair_limbo_stakes is run.
DelegateInit ==
    /\ args = DefaultArgs
    /\ LoopInit
    /\ SearchAtRest
    /\ StartupDone
    /\ hodl_stakes \in [HodlHotkeys -> 0..MaxStake]
    /\ miner_hotkey \in MinerHotkeys
    /\ caller \in {"delegate_hodl_alpha_to_vali", "repair_limbo_stakes"}
    /\ stakes_to_delegate = << >>
    /\ sidx = 0
    /\ moves = << >>
    /\ delegating = "entry"

\* get_stake_for_coldkey(HOLDING_WALLET_ADDRESS) and the filter: the entries
\* of the subnet that are not on the validator hotkey.  Without entries the
\* function returns at once.
list_stakes ==
    /\ delegating = "entry"
    /\ \E order \in ListingOrders :
         stakes_to_delegate' =
             LET held == SelectSeq(order, LAMBDA h : hodl_stakes[h] > 0)
             IN [k \in 1..Len(held) |-> [hotkey_ss58 |-> held[k],
                                         stake |-> hodl_stakes[held[k]]]]
    /\ delegating' = IF stakes_to_delegate' = << >> THEN "done" ELSE "loop"
    /\ UNCHANGED << hodl_stakes, miner_hotkey, caller, sidx, moves >>
    /\ UNCHANGED << loopVars, searchVars, startupVars >>

\* The origin hotkey each function hands to delegate_stake_to_vali for the
\* entry `s`.
OriginHotkey(s) ==
    IF caller = "delegate_hodl_alpha_to_vali" THEN miner_hotkey ELSE s.hotkey_ss58

\* One turn of the loop over the entries: delegate_stake_to_vali, that is
\* move_stake from the origin hotkey to the validator hotkey.  The chain
\* confirms a move only if the origin holds the amount.  An exception ends
\* delegate_hodl_alpha_to_vali; repair_limbo_stakes catches it and goes on.
delegate_stake_to_vali ==
    /\ delegating = "loop"
    /\ LET s == stakes_to_delegate[sidx + 1]
           origin == OriginHotkey(s)
       IN \E o \in MoveOutcomes :
            /\ o = "ok" => hodl_stakes[origin] >= s.stake
            /\ hodl_stakes' =
                  IF o = "ok"
                  THEN [hodl_stakes EXCEPT ![origin] = @ - s.stake,
                                           ![VALIDATOR_HOTKEY] = @ + s.stake]
                  ELSE hodl_stakes
            /\ moves' = Append(moves, [origin_hotkey |-> origin, amount |-> s.stake,
                                       success |-> (o = "ok")])
            /\ sidx' = sidx + 1
            /\ delegating' =
                  IF o = "raise" /\ caller = "delegate_hodl_alpha_to_vali" THEN "raised"
                  ELSE IF sidx + 1 = Len(stakes_to_delegate) THEN "done"
                  ELSE "loop"
    /\ UNCHANGED << miner_hotkey, caller, stakes_to_delegate >>
    /\ UNCHANGED << loopVars, searchVars, startupVars >>

DelegateNext ==
    \/ list_stakes
    \/ delegate_stake_to_vali

DelegateSpec == DelegateInit /\ [][DelegateNext]_vars

\* ------------------------------------------------- where the loop stands
\* The cycle that just ended called perform_stake or perform_unstake.
OperationDone == cycleEnd \in {"op_done", "postop_failed"}
\* The operation of the cycle is a stake (chase_ema with the spot below the
\* EMA) or an unstake (chase_ema with the spot above it, or a harvest).
IsStake == ~args.harvest_alpha /\ alpha_price < moving_price
IsUnstake == args.harvest_alpha \/ alpha_price > moving_price
\* perform_unstake has been called, and its caller has not yet gone on.
UnstakeRequested ==
    \/ pc \in {"unstake", "unstake_vali"}
    \/ pc = "op_ret" /\ IsUnstake

\* The pools whose stake perform_unstake could read, and what it read.
PoolsRead ==
    {"home"} \cup { validator_balances[i].hotkey : i \in 1..Len(validator_balances) }
BalanceRead(p) ==
    IF p = "home" THEN regular_hotkey_balance
    ELSE LET i == CHOOSE j \in 1..Len(validator_balances) :
                      validator_balances[j].hotkey = p
         IN validator_balances[i].balance
\* The alpha that has left pool p since it was read.
TakenFrom(p) ==
    BalanceRead(p) - (IF p = "home" THEN chain[opWallet].home
                                    ELSE chain[opWallet].vali[p])
\* perform_unstake has returned in live mode, its own stake read done.
LiveUnstakeReturned ==
    /\ pc = "op_ret"
    /\ IsUnstake
    /\ ~TEST_MODE
    /\ Len(txlog) = 1
    /\ txlog[1].error_message # "get_stake raised"
\* Every unstake call submitted was confirmed.
EveryCallConfirmed ==
    \A p \in Pools : calls.unstake[p] > 0 => (p \in PoolsRead /\ TakenFrom(p) > 0)

\* ================================================================= claims
\* C1: with a finite budget, the TAO moved by the executed operations of a
\* wallet over the whole run, across every re-entry of chase_ema, never
\* exceeds the budget.
C1_BudgetNeverExceeded ==
    args.budget > 0 => \A w \in Wallets : spent[w] <= args.budget

\* C2: with a finite budget, a successfully executed stake of size s leaves
\* remaining_budget exactly s below its value at the start of the cycle.
C2_StakeCostsItsSize ==
    (args.budget > 0 /\ OperationDone /\ IsStake /\ success)
        => remaining_budget = rb0 - increment

\* C3: a cycle that ends in NoAction (spot equal to EMA, deviation below the
\* minimum, one-way-mode skip) leaves remaining_budget as it was when the
\* cycle began.
C3_NoActionKeepsBudget ==
    (args.budget > 0 /\ cycleEnd \in {"equal", "min_diff", "one_way_skip"})
        => remaining_budget = rb0

\* C4: the alpha that chase_ema and harvest_alpha_for_tao_reserve ask
\* perform_unstake for never exceeds the wallet's alpha over the home and
\* validator pools less DCA_RESERVE_ALPHA, so that with the balances as they
\* were read at least DCA_RESERVE_ALPHA stays staked.
C4_UnstakeKeepsAlphaReserve ==
    UnstakeRequested
        => /\ alpha_amount + DCA_RESERVE_ALPHA
                 <= TotalAlpha(chain, wallet) + total_unstaked
           /\ TotalAlpha(chain, wallet) >= DCA_RESERVE_ALPHA
\* A harvest whose estimate exceeded the available alpha has unstaked.
C4_Witness ==
    /\ args.harvest_alpha
    /\ pc = "op_ret"
    /\ total_unstaked > 0
    /\ AlphaNeededEstimate(DCA_RESERVE_TAO - balance, alpha_price)
          > alpha_balance - DCA_RESERVE_ALPHA

\* C5: no stake confirmed by the chain leaves the wallet's TAO balance below
\* DCA_RESERVE_TAO, with the budget unbounded or finite.
C5_StakeKeepsTaoReserve ==
    (pc = "op_ret" /\ IsStake /\ ~args.test /\ success)
        => chain[wallet].tao >= DCA_RESERVE_TAO

\* C6 as claimed: in test mode no add_stake or unstake call is submitted and
\* perform_stake and perform_unstake both return success.
C6_TestModeAlwaysSucceeds ==
    args.test => /\ calls = NoCalls
                 /\ pc = "op_ret" => success

\* C6 as amended: in test mode no add_stake or unstake call is submitted and
\* perform_stake returns success; perform_unstake returns success unless its
\* read of the home-pool stake raises, and then it returns failure.
C6_TestModeSubmitsNothing ==
    args.test => /\ calls = NoCalls
                 /\ \A w \in Wallets : chain[w] \in Profiles \cup {NoEntry}
                 /\ (pc = "op_ret" /\ ~success)
                       => /\ IsUnstake
                          /\ Len(txlog) = 1
                          /\ txlog[1].error_message = "get_stake raised"
C6_Witness == args.test /\ pc = "op_ret" /\ success /\ IsUnstake

\* C7: in test mode every stake or unstake that would have been executed
\* still produces a transaction record, tagged test_mode = true.
C7_TestModeStillLogs ==
    (args.test /\ pc = "op_ret" /\ success)
        => /\ Len(txlog) >= 1
           /\ txlog[Len(txlog)].test_mode

\* C8: every invocation of perform_stake or perform_unstake appends exactly
\* one record, which on failure has success = false and the error message.
C8_OneRecordPerInvocation ==
    pc = "op_ret"
        => /\ Len(txlog) = nOps
           /\ ~success => /\ ~txlog[Len(txlog)].success
                          /\ txlog[Len(txlog)].error_message # None

\* C9: in live mode an operation one of whose mutating calls returned a falsy
\* confirmation returns failure and is recorded with success = false.
C9_FalsyIsFailure ==
    (pc = "op_ret" /\ ~args.test /\ calls.falsy > 0)
        => /\ ~success
           /\ Len(txlog) = 1
           /\ ~txlog[1].success

\* C10: in live mode no mutating call is retried: within one cycle add_stake
\* is submitted at most once and unstake at most once per stake pool, and
\* once the operation has returned the cycle submits nothing more and goes
\* on to the next cycle or wallet.
C10_NoMutationRetry ==
    [][ /\ calls'.add_stake <= 1
        /\ \A p \in Pools : calls'.unstake[p] <= 1
        /\ pc = "op_ret"
              => /\ calls'.add_stake <= calls.add_stake
                 /\ \A p \in Pools : calls'.unstake[p] <= calls.unstake[p]
                 /\ pc' \in {"idle", "quote", "harvest", "rotation_end"} ]_vars
C10_Witness == pc = "op_ret" /\ ~success /\ calls.add_stake = 1 /\ calls.falsy = 1

\* The latest chase_ema cycle ended because a read failed for good.
ReadGaveUp == cycleEnd \in {"quote_failed", "stake_read_failed", "balance_read_failed"}

\* C11: each read that feeds the decision of a chase_ema cycle (the subnet
\* quote, the stake query, the balance query) is attempted at most
\* max_attempts times, and the cycle gives up on it only after max_attempts
\* attempts.
C11_ReadsRetried ==
    ~args.harvest_alpha
        => /\ \A r \in DOMAIN reads : reads[r] <= max_attempts
           /\ cycleEnd = "quote_failed" => reads.subnet = max_attempts
           /\ cycleEnd = "stake_read_failed" => reads.get_stake = max_attempts
           /\ cycleEnd = "balance_read_failed" => reads.get_balance = max_attempts

\* C12: a chase_ema cycle that ends because a read failed for good has
\* submitted no operation and has waited a full block or polling interval
\* before the outer loop, which goes on, starts the next cycle.
C12_ReadFailureWaits ==
    (~args.harvest_alpha /\ ReadGaveUp)
        => /\ calls = NoCalls
           /\ nOps = 0
           /\ lastWait \in {"sleep", "block"}
           /\ pc = "idle"

\* C13: a chase_ema cycle that calls perform_unstake does so only with the
\* spot of its quote above the EMA, one that calls perform_stake only with
\* the spot below the EMA, in both cases with a deviation of at least
\* min_price_diff; with the spot equal to the EMA it calls neither.
C13_DirectionFollowsQuote ==
    (~args.harvest_alpha /\ pc \in {"stake", "unstake"})
        => /\ pc = "unstake" => subnet_info.price > subnet_info.ema
           /\ pc = "stake" => subnet_info.price < subnet_info.ema
           /\ Abs(subnet_info.price - subnet_info.ema) * 100
                 >= args.min_price_diff * subnet_info.ema

QuoteBelowMin ==
    /\ subnet_info # NoQuote
    /\ Abs(subnet_info.price - subnet_info.ema) * 100
          < args.min_price_diff * subnet_info.ema
\* The cycle has got its quote and both balances and has gone past the
\* deviation gate.
PastTheGate ==
    /\ ~args.harvest_alpha
    /\ pc \notin {"quote", "read", "decide"}
    /\ cycleEnd \notin {"start", "connect_failed", "quote_failed",
                        "stake_read_failed", "balance_read_failed"}

\* C15: a cycle whose quote has the spot within min_price_diff of the EMA
\* sizes nothing and calls no operation, and has waited for the next block
\* when it ends.
C15_SmallDeviationWaits ==
    (PastTheGate /\ QuoteBelowMin)
        => /\ cycleEnd = "min_diff"
           /\ lastWait = "block"
           /\ increment = 0
           /\ nOps = 0

\* --dynamic-slippage with the maximum price difference in force (the option
\* or its default) not above --min-price-diff: the scale factor is 0.
ZeroScale ==
    /\ args.dynamic_slippage
    /\ max_price_diff <= args.min_price_diff

\* C16: in an EMA-chasing run with dynamic slippage whose scale factor is 0,
\* no cycle calls perform_stake or perform_unstake and no add_stake or
\* unstake is submitted.
C16_NoTradeAtZeroScale ==
    (~args.harvest_alpha /\ ZeroScale)
        => /\ nOps = 0
           /\ calls = NoCalls

\* C17: for a non-decreasing slippage function and a target between the
\* slippage at 0 and at max_size, the finished search returns a size in
\* [0, max_size] whose slippage meets the target within the precision, or
\* else it ended because the bracket was no wider than the floor.
C17_SearchConverges ==
    (searching = "done" /\ TargetReachable)
        => /\ best_increment \in 0..initial_max
           /\ \/ DistAt(best_increment) = 0
              \/ max_increment - min_increment <= BracketFloor
\* A search that met its target after more than one probe, its bracket
\* still wide.
C17_Witness ==
    /\ searching = "done"
    /\ TargetReachable
    /\ Len(iterations) >= 2
    /\ best_increment > 0
    /\ DistAt(best_increment) = 0
    /\ max_increment - min_increment > BracketFloor

\* C18 as claimed: once a probe has been recorded,
\* 0 <= lower end <= best size <= upper end <= max_size at every step of
\* the search; with max_size <= 0 no search runs and no trade is made.
C18_BestInsideBracket ==
    /\ iterations # << >>
          => /\ 0 <= min_increment
             /\ min_increment <= best_increment
             /\ best_increment <= max_increment
             /\ max_increment <= initial_max
    /\ (searching # "no" /\ initial_max <= 0)
          => /\ iterations = << >>
             /\ searching \in {"entry", "no_trade"}

\* C18 as amended: at every step 0 <= lower end <= upper end <= max_size,
\* and the best size is 0 before any probe and a probed size after, so that
\* the size returned is never negative and never above max_size (it may lie
\* outside the bracket); with max_size <= 0 no search runs and no trade is
\* made.
C18_SizeWithinBounds ==
    /\ searching \in {"loop", "done"}
          => /\ 0 <= min_increment
             /\ min_increment <= max_increment
             /\ max_increment <= initial_max
             /\ best_increment \in 0..initial_max
             /\ IF iterations = << >> THEN best_increment = 0
                                      ELSE best_increment \in Probed
             /\ Probed \subseteq 0..initial_max
    /\ (searching # "no" /\ initial_max <= 0)
          => /\ iterations = << >>
             /\ best_increment = 0
             /\ searching \in {"entry", "no_trade"}
\* A finished search whose best size was left behind by the bracket.
C18_Witness ==
    /\ searching = "done"
    /\ Len(iterations) >= 2
    /\ best_increment < min_increment

C20_AllocationConserved ==
    (LiveUnstakeReturned /\ EveryCallConfirmed)
        => /\ total_unstaked
                 = Min(alpha_amount,
                       SumOver([p \in PoolsRead |-> BalanceRead(p)], PoolsRead))
           /\ SumOver([p \in PoolsRead |-> TakenFrom(p)], PoolsRead) = total_unstaked
           /\ \A p \in PoolsRead : TakenFrom(p) \in 0..BalanceRead(p)
           /\ \A p \in Pools \ PoolsRead : calls.unstake[p] = 0
\* A request covered by two validator pools and the home pool, all
\* confirmed.
C20_Witness ==
    /\ LiveUnstakeReturned
    /\ EveryCallConfirmed
    /\ \A p \in Pools : calls.unstake[p] = 1
    /\ total_unstaked = alpha_amount
    /\ chain[opWallet].home > 0

\* ------------------------------------------------ the harvest rotation
\* The turns of the latest rotation in which harvest_alpha_for_tao_reserve
\* was called for wallet w in pass p.
HarvestsOf(w, p) ==
    { k \in 1..Len(visits) :
        /\ visits[k].wallet = w
        /\ visits[k].pass = p
        /\ visits[k].end # "harvest_skip" }
\* The wallets in a queue.
WalletsIn(queue) == { queue[k] : k \in 1..Len(queue) }
RankedWallets == { needy_wallets[k].wallet : k \in 1..Len(needy_wallets) }

\* C21: in one run of rotate_wallets_for_harvest a wallet is harvested at
\* most once in the first pass and at most once in the second, the second
\* pass takes only wallets the first pass queued (each of them harvested in
\* the first pass), and the run ends after at most one turn per entry of the
\* two queues: the loop never stands beyond the end of a queue.
C21_HarvestPassesBounded ==
    /\ \A w \in Wallets :
          /\ Cardinality(HarvestsOf(w, 1)) <= 1
          /\ Cardinality(HarvestsOf(w, 2)) <= 1
          /\ HarvestsOf(w, 2) # {} => HarvestsOf(w, 1) # {}
    /\ \A k \in 1..Len(visits) : visits[k].pass \in {1, 2}
    /\ \A k \in 1..Len(visits), j \in 1..Len(visits) :
          (visits[k].pass = 2 /\ visits[j].pass = 1) => j < k
    /\ (args.harvest_alpha /\ pc # "idle")
       => /\ \A k \in 1..Len(visits) :
                visits[k].pass = 2 => visits[k].wallet \in WalletsIn(wallets_needing_more_tao)
          /\ WalletsIn(wallets_needing_more_tao) \subseteq RankedWallets
          /\ Len(wallets_needing_more_tao) <= Len(needy_wallets)
          /\ Len(visits) <= Len(needy_wallets) + Len(wallets_needing_more_tao)
          /\ pc # "rotation_end" =>
                /\ qidx >= 1
                /\ qidx <= (IF pass = 1 THEN Len(needy_wallets)
                                        ELSE Len(wallets_needing_more_tao))
          /\ pc = "rotation_end" =>
                Len(visits) = Len(needy_wallets) + Len(wallets_needing_more_tao)

\* A rotation has ended in which a wallet was harvested in both passes.
C21_Witness ==
    /\ pc = "idle"
    /\ cycleEnd = "rotation_done"
    /\ \E w \in Wallets : HarvestsOf(w, 1) # {} /\ HarvestsOf(w, 2) # {}

\* ------------------------------------------------- errors and the loops
\* The ways a cycle, a wallet's harvest or a rotation ends on a failed or
\* raising connection or read.
ChainErrorEnds ==
    { "connect_failed", "quote_failed", "stake_read_failed", "balance_read_failed",
      "postop_failed", "prefetch_failed", "harvest_quote_failed",
      "harvest_read_failed", "harvest_failed" }
\* Where the loops stand between two wallets, two cycles or two rotations.
LoopHeads == {"idle", "quote", "harvest", "rotation_end"}
\* perform_stake or perform_unstake has returned a failure to its caller.
OperationFailed == pc = "op_ret" /\ ~success

\* C22: no failed or raising connection, read, stake or unstake stops the
\* program: when a cycle, a harvest or a rotation ends on one, the loop
\* stands at the head of the next wallet, cycle or rotation; a failed stake
\* or unstake returns to its caller, which goes on; and in every state the
\* loop has a next step.
C22_ErrorsNeverStopTheLoop ==
    /\ ENABLED Next
    /\ cycleEnd \in ChainErrorEnds => pc \in LoopHeads
    /\ OperationFailed => ENABLED (AfterOperation \/ AfterHarvest)

\* In rotation mode the cycle of the first wallet ended on a failed read
\* and the loop stands at the second wallet.
C22_Witness ==
    /\ args.rotate_all_wallets
    /\ cycleEnd \in {"quote_failed", "stake_read_failed", "balance_read_failed",
                      "postop_failed"}
    /\ pc = "idle"
    /\ cur = 2

\* ------------------------------------------------------ rotation order
\* Pair p comes before pair q: by coldkey name, then by hotkey name.
PairBefore(p, q) == p[1] < q[1] \/ (p[1] = q[1] /\ p[2] < q[2])
\* The run is `python btt_subnet_dca.py --rotate-all-wallets`, chasing the EMA.
RotationMode == args.rotate_all_wallets /\ ~args.harvest_alpha
\* A round of rotate_wallets is over: the loop stands before the first wallet
\* again.
RoundOver == pc = "idle" /\ cur = 1 /\ visits # << >>

\* Whatever is on disk and whichever coldkeys are skipped, the list of
\* initialize_wallets is in coldkey order, then hotkey order, and holds every
\* pair of a coldkey that was not skipped exactly once.
DiscoveryOrdered ==
    \A disk \in DiskLayouts, skipped \in SUBSET ColdkeyNames :
        LET ws == initialize_wallets(disk, skipped)
        IN /\ \A i \in 1..Len(ws), j \in 1..Len(ws) :
                 i < j => PairBefore(ws[i], ws[j])
           /\ { ws[i] : i \in 1..Len(ws) }
                = { p \in (ColdkeyNames \ skipped) \X HotkeyNames : p[2] \in disk[p[1]] }

\* C23: the list rotate_wallets walks is sorted by coldkey name, then by
\* hotkey name; in rotation mode the calls of chase_ema in a round follow
\* that list from its first wallet, a call is for the same wallet until it
\* returns, and when the round is over every wallet has had exactly one
\* call.
C23_FixedRotationOrder ==
    /\ DiscoveryOrdered
    /\ RotationMode =>
          /\ Len(visits) <= Len(unlocked_wallets)
          /\ \A k \in 1..Len(visits) : visits[k].wallet = unlocked_wallets[k]
          /\ pc # "idle" => (visits # << >> /\ visits[Len(visits)].wallet = wallet)
          /\ pc = "idle" /\ visits # << >> =>
                cur = (IF Len(visits) < Len(unlocked_wallets) THEN Len(visits) + 1 ELSE 1)
          /\ RoundOver => Len(visits) = Len(unlocked_wallets)

\* A second round of the rotation is under way: the first wallet is being
\* processed again, after a round in which both wallets had their call.
C23_Witness ==
    /\ RotationMode
    /\ pc = "decide"
    /\ cur = 1
    /\ visits = << [wallet |-> 1, pass |-> 1, end |-> "chase_ema", wait |-> "none"] >>
    /\ spent[2] > 0

\* ---------------------------------------------------- dynamic slippage
\* The target has been computed from the prices of the cycle.
Scaled == searching = "entry" /\ pc = "decide" /\ args.dynamic_slippage
\* |price_diff_pct| of a cycle with `price` and `ema` is at least d percent.
DeviationAtLeast(price, ema, d) == Abs(price - ema) * 100 >= d * ema
\* Fraction a is at most fraction b (denominators positive).
FracLeq(a, b) == a.num * b.den <= b.num * a.den
\* base_slippage * clamp((|deviation| - min) / (max - min), 0, 1), for
\* max > min.
ClampedTarget(price, ema) ==
    LET xn == Abs(price - ema) * 100 - args.min_price_diff * ema
        xd == ema * (max_price_diff - args.min_price_diff)
    IN IF xn <= 0 THEN [num |-> 0, den |-> 1]
       ELSE IF xn >= xd THEN [num |-> args.slippage, den |-> 1]
       ELSE [num |-> args.slippage * xn, den |-> xd]

\* C24 as claimed: the target is the base slippage whenever the deviation
\* is at least max_deviation, whatever min_deviation is.
C24_BaseAtMaxDeviation ==
    (Scaled /\ DeviationAtLeast(alpha_price, moving_price, max_price_diff))
        => /\ target_slippage.num = args.slippage * target_slippage.den

\* C24: under --dynamic-slippage the target handed to the search lies in
\* [0, base] and is non-decreasing in |deviation|; when max_deviation is
\* above min_deviation it is base * clamp((|deviation| - min_deviation) /
\* (max_deviation - min_deviation), 0, 1), hence the base whenever
\* |deviation| >= max_deviation; when max_deviation is not above
\* min_deviation it is 0.
C24_DynamicTarget ==
    Scaled =>
        /\ target_slippage.den > 0
        /\ target_slippage.num >= 0
        /\ target_slippage.num <= args.slippage * target_slippage.den
        /\ \A p \in 1..MaxPrice, e \in 1..MaxPrice :
              Abs(p - e) * moving_price >= Abs(alpha_price - moving_price) * e
                  => FracLeq(target_slippage, TargetSlippageAt(p, e))
        /\ IF max_price_diff > args.min_price_diff
           THEN /\ FracLeq(target_slippage, ClampedTarget(alpha_price, moving_price))
                /\ FracLeq(ClampedTarget(alpha_price, moving_price), target_slippage)
                /\ DeviationAtLeast(alpha_price, moving_price, max_price_diff)
                     => target_slippage.num = args.slippage * target_slippage.den
           ELSE target_slippage.num = 0

\* A target strictly between 0 and the base has been handed to the search.
C24_Witness ==
    /\ Scaled
    /\ target_slippage.num > 0
    /\ target_slippage.num < args.slippage * target_slippage.den

\* ------------------------------------------------- the search's length
\* The least k with 2^k >= n.
RECURSIVE Log2Ceil(_)
Log2Ceil(n) == IF n <= 1 THEN 0 ELSE 1 + Log2Ceil((n + 1) \div 2)
\* ceil(log2(max_size / floor)), the number of probes claimed to suffice.
ProbeBound == Log2Ceil((initial_max + BracketFloor - 1) \div BracketFloor)

\* C25: a search with max_size > 0 on a non-decreasing slippage function
\* makes at most ceil(log2(max_size / floor)) probes: by then it has met the
\* target or its bracket is no wider than the floor.
C25_SearchTerminates ==
    (searching \in {"loop", "done"} /\ initial_max > 0)
        => /\ Len(iterations) <= ProbeBound
           /\ (searching = "loop" /\ Len(iterations) = ProbeBound)
                 => max_increment - min_increment <= BracketFloor

\* --------------------------------------------------- the size returned
\* Probe k is the best of the probes made: none is closer to the target and
\* none before it is as close.
BestProbe(k) ==
    /\ \A j \in 1..Len(iterations) :
          Dist(iterations[j][2], target_slippage) >= Dist(iterations[k][2], target_slippage)
    /\ \A j \in 1..(k - 1) :
          Dist(iterations[j][2], target_slippage) > Dist(iterations[k][2], target_slippage)

\* C26: once the search has probed, the size it holds as best (and returns
\* when it ends) is the size of the probe whose slippage is closest to the
\* target among all probes made, the earliest of them on a tie, and
\* closest_slippage is the slippage of that probe.
C26_GlobalBest ==
    (searching \in {"loop", "done"} /\ iterations # << >>)
        => \E k \in 1..Len(iterations) :
              /\ BestProbe(k)
              /\ best_increment = iterations[k][1]
              /\ closest_slippage = << iterations[k][2] >>

\* A finished search returns its first probe, not its last midpoint: a
\* later probe was as close, others were farther.
C26_Witness ==
    /\ searching = "done"
    /\ Len(iterations) >= 3
    /\ best_increment = iterations[1][1]
    /\ best_increment # iterations[Len(iterations)][1]
    /\ \E j \in 2..Len(iterations) :
          Dist(iterations[j][2], target_slippage) = Dist(iterations[1][2], target_slippage)

\* ---------------------------------------------- the order of the pools
\* C27: the unstake calls of one perform_unstake go to the validator pools
\* in non-increasing order of the balances read, no pool twice, and to the
\* home pool last if at all; every call is made while part of the request
\* is still unconfirmed, so the home pool is called only when the confirmed
\* validator amounts leave part of it uncovered, and by then every readable
\* validator pool that holds alpha has been called.
C27_ValidatorsBeforeHome ==
    (UnstakeRequested /\ ~TEST_MODE)
        => LET order == calls.order
           IN /\ \A i \in 1..Len(order), j \in 1..Len(order) :
                    i < j => /\ order[i].pool # "home"
                             /\ order[i].pool # order[j].pool
                             /\ order[j].pool # "home"
                                   => BalanceRead(order[i].pool) >= BalanceRead(order[j].pool)
              /\ \A i \in 1..Len(order) :
                    /\ order[i].remaining > 0
                    /\ order[i].pool \in PoolsRead
                    /\ calls.unstake[order[i].pool] = 1
              /\ \A p \in Pools : calls.unstake[p] > 0 => \E i \in 1..Len(order) : order[i].pool = p
              /\ calls.unstake["home"] > 0
                    => /\ remaining_unstake > 0
                       /\ \A p \in PoolsRead \ {"home"} :
                             BalanceRead(p) > 0 => calls.unstake[p] > 0
              /\ (pc = "op_ret" /\ remaining_unstake <= 0) => calls.unstake["home"] = 0

\* Both validator pools, of different balances, then the home pool were
\* called: the smaller validator pool second.
C27_Witness ==
    /\ LiveUnstakeReturned
    /\ Len(calls.order) = 3
    /\ calls.order[3].pool = "home"
    /\ calls.order[1].pool = "v2"
    /\ BalanceRead("v2") > BalanceRead("v1")

\* ------------------------------------------------ the harvest ranking
\* Whatever the pre-fetch records, the queue holds exactly the wallets whose
\* TAO deficit is positive, each once and with the available alpha recorded
\* for it, most available alpha first.
RankingOrdered ==
    \A wallet_data \in WalletData :
        LET queue == NeedyWallets(wallet_data)
            deficient == { k \in 1..Len(wallet_data) : wallet_data[k].tao_deficit > 0 }
        IN /\ Len(queue) = Cardinality(deficient)
           /\ \A k \in deficient : \E i \in 1..Len(queue) :
                 /\ queue[i].wallet = wallet_data[k].wallet
                 /\ queue[i].available_alpha = wallet_data[k].available_alpha
           /\ \A i \in 1..Len(queue), j \in 1..Len(queue) :
                 i < j => queue[i].available_alpha >= queue[j].available_alpha
\* What the pre-fetch records for a wallet: the alpha of the pools it could
\* read above the alpha reserve, and the TAO missing to the TAO reserve,
\* neither below 0.
PrefetchComputed ==
    \A w \in Wallets, entry \in Profiles, home_ok \in BOOLEAN,
       readable \in SUBSET Validators, bal_ok \in BOOLEAN :
        LET info == WalletInfo(w, entry, home_ok, readable, bal_ok)
            alpha == (IF home_ok THEN entry.home ELSE 0)
                        + SumOver(entry.vali, readable)
        IN /\ info.available_alpha >= 0
           /\ info.available_alpha = (IF alpha > DCA_RESERVE_ALPHA
                                      THEN alpha - DCA_RESERVE_ALPHA ELSE 0)
           /\ info.tao_deficit > 0 <=> (~bal_ok \/ entry.tao < DCA_RESERVE_TAO)
\* The turns of the first pass so far.
FirstPassTurns == SelectSeq(visits, LAMBDA v : v.pass = 1)

\* C28: the harvest queue holds only wallets whose TAO deficit at the
\* pre-fetch was positive, and the first pass takes them in non-increasing
\* order of the available alpha computed at the pre-fetch (the alpha of the
\* home and validator pools above the reserve, 0 if there is none): its
\* turns follow the queue, which is sorted that way.
C28_HarvestRanking ==
    /\ RankingOrdered
    /\ PrefetchComputed
    /\ (args.harvest_alpha /\ pc # "idle") =>
          /\ needy_wallets \in NeedyQueues
          /\ \A i \in 1..Len(needy_wallets), j \in 1..Len(needy_wallets) :
                i < j => /\ needy_wallets[i].available_alpha
                               >= needy_wallets[j].available_alpha
                         /\ needy_wallets[i].wallet # needy_wallets[j].wallet
          /\ Len(FirstPassTurns) <= Len(needy_wallets)
          /\ \A k \in 1..Len(FirstPassTurns) :
                FirstPassTurns[k].wallet = needy_wallets[k].wallet
          /\ pass = 1 /\ pc # "rotation_end" => qidx = Len(FirstPassTurns) + 1

\* The first pass has taken wallet 2 before wallet 1: it had more alpha
\* available at the pre-fetch.
C28_Witness ==
    /\ args.harvest_alpha
    /\ pc # "idle"
    /\ Len(FirstPassTurns) = 2
    /\ FirstPassTurns[1].wallet = 2
    /\ needy_wallets[1].available_alpha > needy_wallets[2].available_alpha
    /\ needy_wallets[2].available_alpha > 0

\* ------------------------------------------------ the second-pass queue
\* C29: once a first-pass turn in which harvest_alpha_for_tao_reserve
\* returned a result has ended, its wallet is in the second-pass queue if
\* the result says that a deficit remains and that the wallet has alpha
\* above the reserve left, whether the attempt succeeded, was skipped or
\* failed, and is not in it if no deficit remains.
C29_SecondPassQueue ==
    (/\ args.harvest_alpha
     /\ pc \in {"harvest", "rotation_end"}
     /\ visits # << >>
     /\ visits[Len(visits)].pass = 1
     /\ visits[Len(visits)].end \in
           {"harvest_sufficient", "harvest_no_excess", "harvest_below_min",
            "harvest_done", "harvest_failed"})
        => /\ (hres.remaining_deficit > 0 /\ hres.has_more_alpha)
                 => visits[Len(visits)].wallet \in WalletsIn(wallets_needing_more_tao)
           /\ hres.remaining_deficit = 0
                 => visits[Len(visits)].wallet \notin WalletsIn(wallets_needing_more_tao)

\* ------------------------------------------------ the waits of a harvest
\* C30: in a harvest rotation every turn that another turn follows, of the
\* same pass or the first of the second pass, ends with a wait for one
\* block, the turn of a wallet skipped for having no available alpha
\* included.  Another turn follows every turn but the last, and the last
\* too while the rotation is at a wallet.
C30_BlockBetweenWallets ==
    args.harvest_alpha =>
        \A k \in 1..Len(visits) :
            (k < Len(visits) \/ pc \notin {"idle", "rotation_end"})
                => visits[k].wait = "block"

\* ------------------------------------------------ the prices of a cycle
\* C31: the spot price and the EMA a chase_ema cycle decides, sizes and
\* logs with are those of the quote fetched in that cycle, also when the
\* attribute access on the quote failed and the fallback was taken.
C31_PricesOfThisCycle ==
    (/\ ~args.harvest_alpha
     /\ pc \in {"read", "decide", "stake", "unstake", "unstake_vali", "op_ret"}
     /\ subnet_info # NoQuote)
        => /\ alpha_price = subnet_info.price
           /\ moving_price = subnet_info.ema

\* ------------------------------------------------ the managed wallets
\* C32: in a run with --rotate-all-wallets that has handed its wallets to
\* main, the holding wallet (a wallet on disk with hotkeys and a password)
\* is among the wallets handed to rotate_wallets_for_harvest in
\* alpha-harvesting mode, and is not among the wallets of the rotation in
\* EMA-chasing mode.
C32_HarvestManagesHolding ==
    (/\ pc = "idle"
     /\ args.rotate_all_wallets
     /\ holding_wallet \in DOMAIN get_wallet_groups(wallet_dirs)
     /\ holding_wallet \notin no_password)
        => (args.harvest_alpha
              <=> \E k \in 1..Len(all_wallets) : all_wallets[k][1] = holding_wallet)

\* ------------------------------------------- the delegation of the stake
\* C33: delegate_hodl_alpha_to_vali issues, for each stake entry of the
\* holding coldkey that is not on the validator hotkey, a move from the
\* hotkey of that entry for the amount of that entry; when it has returned
\* with every move confirmed, the holding coldkey has no stake left on a
\* hotkey other than the validator's.
C33_DelegatesAllHoldingStake ==
    caller = "delegate_hodl_alpha_to_vali"
        => /\ \A k \in 1..Len(moves) :
                 /\ moves[k].origin_hotkey = stakes_to_delegate[k].hotkey_ss58
                 /\ moves[k].amount = stakes_to_delegate[k].stake
           /\ (delegating = "done" /\ \A k \in 1..Len(moves) : moves[k].success)
                 => \A h \in MinerHotkeys : hodl_stakes[h] = 0

\* ------------------------------------------------ the remaining budget
\* C34: in an EMA-chasing run with a budget, remaining_budget is never below
\* 0 and never above the budget, whatever cycles have run.
C34_BudgetWithinBounds ==
    (~args.harvest_alpha /\ args.budget > 0)
        => /\ remaining_budget >= 0
           /\ remaining_budget <= args.budget

\* A cycle of a run with a budget has performed an operation that succeeded
\* and the loop is at its next cycle with less budget than it started with.
C34_Witness ==
    /\ ~args.harvest_alpha
    /\ args.budget > 0
    /\ cycleEnd = "op_done"
    /\ success
    /\ pc = "quote"
    /\ remaining_budget < args.budget

\* ------------------------------------------- the budget of a failed cycle
\* C35: in a run with a budget, a cycle whose stake or unstake failed
\* (perform_stake or perform_unstake is back in chase_ema with a failure,
\* or the cycle has ended after it) has the remaining budget it had when it
\* began.
C35_FailedOperationIsFree ==
    (/\ ~args.harvest_alpha
     /\ args.budget > 0
     /\ ~success
     /\ nOps > 0
     /\ (pc = "op_ret" \/ cycleEnd \in {"op_done", "postop_failed"}))
        => remaining_budget = rb0

\* ------------------------------------------- the stake within the budget
\* C36: a cycle of a run with a budget that ends with 'Insufficient
\* remaining budget' before perform_stake had found a size above the budget
\* that remained when the cycle began; a stake of a size within it is not
\* rejected.
C36_StakeWithinBudgetExecuted ==
    (~args.harvest_alpha /\ args.budget > 0 /\ cycleEnd = "insufficient_budget")
        => increment > rb0

\* ------------------------------------------------ the wait after no trade
\* C37: a chase_ema cycle that ended without a trade for a reason chase_ema
\* computes by itself (balance below the TAO reserve, no alpha above the
\* reserve, budget or balance exhausted, size or impact above the remaining
\* budget) has waited for a block or slept before the outer loop starts the
\* next cycle.
C37_NoTradeWaits ==
    (/\ ~args.harvest_alpha
     /\ cycleEnd \in {"below_tao_reserve", "no_alpha_excess", "exhausted",
                      "over_budget", "unstake_over_budget", "insufficient_budget"})
        => lastWait \in {"block", "sleep"}

\* ------------------------------------------- the deficit a harvest reports
\* C38: in a live harvest whose perform_unstake returned success, the
\* remaining deficit reported is the one the confirmed unstakes leave,
\* whatever per-pool unstake calls failed: in particular it is 0 only if
\* the confirmed unstakes cover the deficit.  The deficit they leave is the
\* TAO reserve less the balance read and the TAO of the alpha actually
\* unstaked.
C38_ReportedDeficitIsConfirmed ==
    (/\ args.harvest_alpha
     /\ ~TEST_MODE
     /\ pc = "op_ret"
     /\ HarvestResult.success)
        => HarvestResult.remaining_deficit
              = Max(0, DCA_RESERVE_TAO
                         - (balance + AdjustedTaoImpact(total_unstaked)))

\* ------------------------------------------- one operation per turn
\* C39: in rotation mode a call of chase_ema performs at most one stake or
\* unstake: a cycle performs at most one, no cycle of the call begins after
\* one that performed an operation, and the cycle that performed it has
\* waited for a block and returned to the rotation, which is at the next
\* wallet, once the balances are read and recorded.
C39_OneOperationPerTurn ==
    RotationMode
        => /\ nOps <= 1
           /\ pc \in {"quote", "read", "decide"} => nOps = 0
           /\ cycleEnd = "op_done"
                 => /\ pc = "idle"
                    /\ lastWait = "block"
                    /\ nOps = 1
                    /\ visits[Len(visits)].wallet # unlocked_wallets[cur]

\* Wallet 2 has had its operation, which succeeded, in the second turn of
\* the round, and the rotation is back at wallet 1.
C39_Witness ==
    /\ RotationMode
    /\ cycleEnd = "op_done"
    /\ success
    /\ pc = "idle"
    /\ cur = 1
    /\ Len(visits) = 2

====
